---- MODULE Spec2Model ----
(***************************************************************************)
(* cherrypick-interactive (src/cli.js): subject-based diff of two          *)
(* branches, re-ordering of a selection, the sequential cherry-pick state  *)
(* machine with interactive conflict resolution, conventional-commit       *)
(* classification and semantic version increment.                         *)
(*                                                                         *)
(* Several specifications share this module:                               *)
(*   SpecDiff     filterMissing and the oldest->newest re-ordering         *)
(*   SpecVersion  parseVersion / incrementVersion on version texts         *)
(*   SpecClassify classifySingleCommit on commit messages                  *)
(*   SpecCollapse collapseBumps on lists of levels                         *)
(*   SpecScan     the loop of computeSemanticBumpForCommits                *)
(*   SpecChangelog buildChangelogBody on lists of commits                  *)
(*   Spec         main(): the release run with cherryPickSequential        *)
(***************************************************************************)
EXTENDS Integers, Sequences, FiniteSets, TLC

VARIABLES
  \* ---- SpecDiff: main() lines 517-542 seen as pure data flow
  devCommits,    \* result of getDevCommits: newest first, <<[hash, subject]>>
  mainSubjects,  \* result of getSubjects: a set of subjects
  missing,       \* filterMissing(devCommits, mainSubjects)
  selected,      \* the hashes returned by the selection, in any order
  bottomToTop,   \* [...selected].sort(by descending index)
  resorted,      \* the same sort applied to bottomToTop once more
  dpc,           \* position of the data flow
  \* ---- SpecVersion: parseVersion / incrementVersion
  verText,       \* the version text handed to the function
  verBump,       \* the bump argument of incrementVersion
  verOut,        \* the value returned (or the error thrown)
  vpc,           \* "input" | "parsed" | "incremented"
  \* ---- SpecClassify: classifySingleCommit
  clsMsg,        \* the commit message, a sequence of text fragments
  clsLevel,      \* the level returned
  cpc,           \* "input" | "classified"
  \* ---- SpecCollapse: collapseBumps
  levelList,     \* the levels handed to collapseBumps
  collapsed,     \* the level returned
  bpc,           \* "input" | "collapsed"
  \* ---- SpecScan: the loop of computeSemanticBumpForCommits
  scanHashes,    \* hashes, the list handed to the function
  scanBodies,    \* what `show --format=%B` prints for each hash
  scanAt,        \* position of the for loop in hashes
  scanLevels,    \* levels, the list the loop pushes to
  scanFetched,   \* the hashes whose message has been asked for, in order
  scanBump,      \* the level returned, "none" for null
  spc,           \* "start" | "loop" | "collapse" | "returned" | "threw"
  \* ---- SpecChangelog: buildChangelogBody
  chgCommits,    \* the commits, oldest first: <<[hash, msg]>>
  chgBody,       \* the sections of the body returned, in order
  lpc,           \* "input" | "built"
  \* ---- Spec: main() and cherryPickSequential (with devCommits,
  \* mainSubjects, missing and bottomToTop above)
  pc,            \* the await the run is suspended at, or "exit"
  exitCode,      \* -1 while running, then the process exit code
  outcome,       \* the error that ended the run, or how it ended normally
  semver,        \* argv["semantic-versioning"]
  createRelease, \* argv["create-release"]
  currentVersion,      \* argv["current-version"], a text or Absent
  computedNextVersion, \* the local of main()
  branches,      \* ensureBranchDoesNotExistLocally: branches.all, {} before the listing
  bodies,        \* what `show --format=%B` prints for the hashes to apply, <<>> before
  qDev,          \* getDevCommits of the Promise.all: "idle", "pending", "done"
  qMain,         \* getSubjects of the Promise.all
  head,          \* the branch git has checked out
  pos,           \* cherryPickSequential: position of the for loop in hashes
  result,        \* cherryPickSequential: {applied, skipped}
  st,            \* per hash: Waiting, Applying, ConflictPending, Applied, Skipped, Aborted
  unmerged,      \* git: the files `diff --name-only --diff-filter=U` lists
  inProgress,    \* git: a cherry-pick is stopped and can be continued, skipped or aborted
  committed,     \* git: hashes whose cherry-pick or --continue command succeeded
  picked,        \* hashes `cherry-pick <hash>` was issued for, in order of issue
  issued,        \* kinds of state-changing commands issued so far
  cmds,          \* the commands issued by the last step, in order
  choice         \* the operator's answer to the menu of the last step, or "none"

diffVars == <<devCommits, mainSubjects, missing, selected, bottomToTop, resorted, dpc>>
verVars == <<verText, verBump, verOut, vpc>>
clsVars == <<clsMsg, clsLevel, cpc>>
colVars == <<levelList, collapsed, bpc>>
scanVars == <<scanHashes, scanBodies, scanAt, scanLevels, scanFetched, scanBump, spc>>
chgVars == <<chgCommits, chgBody, lpc>>
ctlVars == <<pc, exitCode, outcome>>
argVars == <<semver, createRelease, currentVersion, computedNextVersion, branches, bodies>>
queryVars == <<qDev, qMain>>
dataVars == <<devCommits, mainSubjects, missing, bottomToTop>>
orchVars == <<pos, result, st, picked>>
gitVars == <<head, unmerged, inProgress, committed>>
logVars == <<issued, cmds, choice>>
runVars == <<ctlVars, argVars, queryVars, orchVars, gitVars, logVars>>
vars == <<diffVars, verVars, clsVars, colVars, scanVars, chgVars, runVars>>

(***************************************************************************)
(* Bounds                                                                  *)
(***************************************************************************)
MaxCommits == 3
MaxDigits == 2
MaxFragments == 4
MaxHashes == 2
MaxFiles == 2
MaxLevels == 4
MaxEntries == 3
MaxScan == 3

(***************************************************************************)
(* Generic helpers                                                         *)
(***************************************************************************)
Range(s) == {s[i] : i \in 1..Len(s)}

SeqsUpTo(S, n) == UNION {[1..k -> S] : k \in 0..n}

Reverse(s) == [i \in 1..Len(s) |-> s[Len(s) + 1 - i]]

\* All orderings of all subsets of S (sequences without repetition).
Arrangements(S) ==
  {s \in SeqsUpTo(S, Cardinality(S)) : \A i, j \in 1..Len(s) : i # j => s[i] # s[j]}

(***************************************************************************)
(* Commit Set Differ                                                       *)
(***************************************************************************)
HashNames == <<"h1", "h2", "h3", "h4", "h5", "h6">>

Subjects == {"feat: x", "fix: y", "chore: z"}

\* getDevCommits: one {hash, subject} per log line, newest first.  Hashes of
\* distinct commits are distinct; subjects may repeat.
DevCommitLists ==
  UNION {{[i \in 1..n |-> [hash |-> HashNames[i], subject |-> subj[i]]] :
            subj \in [1..n -> Subjects]} : n \in 0..MaxCommits}

\* Array.prototype.filter: keeps, in order, the elements the predicate accepts.
RECURSIVE filterMissingFrom(_, _, _)
filterMissingFrom(commits, subjects, i) ==
  IF i > Len(commits) THEN <<>>
  ELSE IF commits[i].subject \notin subjects
       THEN <<commits[i]>> \o filterMissingFrom(commits, subjects, i + 1)
       ELSE filterMissingFrom(commits, subjects, i + 1)

filterMissingKeepsPresent(commits, subjects) ==
  SelectSeq(commits, LAMBDA c : c.subject \in subjects)

filterMissing(commits, subjects) == filterMissingFrom(commits, subjects, 1)

\* new Map(missing.map((c, i) => [c.hash, i])): 0 = newest, larger = older.  A
\* later entry for the same key replaces an earlier one.
indexByHash(miss) ==
  [h \in {miss[i].hash : i \in 1..Len(miss)} |->
     (CHOOSE i \in 1..Len(miss) :
        /\ miss[i].hash = h
        /\ \A j \in 1..Len(miss) : miss[j].hash = h => j <= i) - 1]

\* The comparator (a, b) => indexByHash.get(b) - indexByHash.get(a).
compareAscending(a, b, idx) == idx[a] - idx[b]

compare(a, b, idx) == idx[b] - idx[a]

\* Array.prototype.sort is a stable comparison sort: x is placed before the
\* first element that must come after it, behind every element that compares
\* equal to it or before it.
RECURSIVE insertSorted(_, _, _)
insertSorted(x, s, idx) ==
  IF s = <<>> THEN <<x>>
  ELSE IF compare(Head(s), x, idx) > 0
       THEN <<x>> \o s
       ELSE <<Head(s)>> \o insertSorted(x, Tail(s), idx)

RECURSIVE sortFrom(_, _, _, _)
sortFrom(s, i, acc, idx) ==
  IF i > Len(s) THEN acc
  ELSE sortFrom(s, i + 1, insertSorted(s[i], acc, idx), idx)

\* [...selected].sort((a, b) => indexByHash.get(b) - indexByHash.get(a))
sortBottomToTop(sel, idx) == sortFrom(sel, 1, <<>>, idx)

missingHashes == [i \in 1..Len(missing) |-> missing[i].hash]

DiffInit ==
  /\ devCommits \in DevCommitLists
  /\ mainSubjects \in SUBSET Subjects
  /\ missing = <<>>
  /\ selected = <<>>
  /\ bottomToTop = <<>>
  /\ resorted = <<>>
  /\ dpc = "queried"

\* line 522
FilterMissing ==
  /\ dpc = "queried"
  /\ missing' = filterMissing(devCommits, mainSubjects)
  /\ dpc' = "filtered"
  /\ UNCHANGED <<devCommits, mainSubjects, selected, bottomToTop, resorted>>

\* lines 531-540: --all-yes takes every missing hash in list order, the
\* checkbox prompt returns any subset of the offered hashes, in an order the
\* caller does not rely on.
SelectCommits ==
  /\ dpc = "filtered"
  /\ selected' \in Arrangements(Range(missingHashes))
  /\ dpc' = "selected"
  /\ UNCHANGED <<devCommits, mainSubjects, missing, bottomToTop, resorted>>

\* line 542
OrderSelection ==
  /\ dpc = "selected"
  /\ bottomToTop' = sortBottomToTop(selected, indexByHash(missing))
  /\ dpc' = "ordered"
  /\ UNCHANGED <<devCommits, mainSubjects, missing, selected, resorted>>

\* the re-ordering of line 542 applied to its own output
OrderAgain ==
  /\ dpc = "ordered"
  /\ resorted' = sortBottomToTop(bottomToTop, indexByHash(missing))
  /\ dpc' = "reordered"
  /\ UNCHANGED <<devCommits, mainSubjects, missing, selected, bottomToTop>>


(***************************************************************************)
(* Claims about the Commit Set Differ and the re-ordering (SpecDiff)       *)
(***************************************************************************)
\* Indices of devCommits whose subject is not a target subject.
KeptIndices == {i \in 1..Len(devCommits) : devCommits[i].subject \notin mainSubjects}

\* The k-th smallest element of a set of naturals.
KthOf(S, k) == CHOOSE i \in S : Cardinality({j \in S : j <= i}) = k

\* 0-based position of a hash in the newest-first missing list.
PositionInMissing(h) == (CHOOSE p \in 1..Len(missing) : missing[p].hash = h) - 1

\* C1: filterMissing(B, A) returns exactly the commits of B whose subject is
\* not in A, in B's relative order; B itself when A is empty, the empty list
\* when B is empty.
C1_FilterMissingExact ==
  dpc # "queried" =>
    /\ Len(missing) = Cardinality(KeptIndices)
    /\ \A k \in 1..Len(missing) : missing[k] = devCommits[KthOf(KeptIndices, k)]
    /\ (mainSubjects = {} => missing = devCommits)
    /\ (devCommits = <<>> => missing = <<>>)

\* A commit present in the target lies between two missing ones.
C1_Witness ==
  /\ dpc = "filtered"
  /\ Len(devCommits) = 3
  /\ devCommits[2].subject \in mainSubjects
  /\ missing = <<devCommits[1], devCommits[3]>>

\* C2: the list handed to the orchestrator holds exactly the selected hashes,
\* by strictly descending position in the newest-first missing list (oldest
\* first), and every permutation of the selection gives the same list.
C2_ApplyOrderOldestFirst ==
  dpc \in {"ordered", "reordered"} =>
    /\ Len(bottomToTop) = Len(selected)
    /\ Range(bottomToTop) = Range(selected)
    /\ \A i, j \in 1..Len(bottomToTop) :
         i < j => PositionInMissing(bottomToTop[i]) > PositionInMissing(bottomToTop[j])
    /\ \A other \in Arrangements(Range(selected)) :
         Range(other) = Range(selected) =>
           sortBottomToTop(other, indexByHash(missing)) = bottomToTop

\* Three commits selected in an order that is neither newest-first nor
\* oldest-first.
C2_Witness ==
  /\ dpc = "ordered"
  /\ Len(missing) = 3
  /\ selected = <<missing[2].hash, missing[3].hash, missing[1].hash>>
  /\ bottomToTop = <<missing[3].hash, missing[2].hash, missing[1].hash>>

Permutations1(n) == {p \in [1..n -> 1..n] : \A i, j \in 1..n : i # j => p[i] # p[j]}

\* out is input rearranged by a permutation that puts keys in non-increasing
\* order and keeps the input order of elements with equal keys.
IsStableSortDescending(out, input, idx) ==
  /\ Len(out) = Len(input)
  /\ \E p \in Permutations1(Len(input)) :
       /\ \A k \in 1..Len(out) : out[k] = input[p[k]]
       /\ \A k, l \in 1..Len(out) : k < l => idx[out[k]] >= idx[out[l]]
       /\ \A k, l \in 1..Len(out) : (k < l /\ idx[out[k]] = idx[out[l]]) => p[k] < p[l]

\* C3: the re-ordering is a stable sort by descending original index, and
\* applying it to its own output returns that output.
C3_StableSortIdempotent ==
  /\ dpc \in {"ordered", "reordered"} =>
       IsStableSortDescending(bottomToTop, selected, indexByHash(missing))
  /\ dpc = "reordered" => resorted = bottomToTop

\* The sort changed the selection's order, and was applied a second time.
C3_Witness ==
  /\ dpc = "reordered"
  /\ Len(selected) >= 2
  /\ bottomToTop # selected
  /\ resorted = bottomToTop

(***************************************************************************)
(* Version Calculator.  A text is a sequence of one-character strings.     *)
(***************************************************************************)
DigitChars == <<"0", "1", "2", "3", "4", "5", "6", "7", "8", "9">>

IsDigit(c) == \E d \in 1..10 : DigitChars[d] = c

DigitValue(c) == (CHOOSE d \in 1..10 : DigitChars[d] = c) - 1

\* What String.prototype.trim removes at both ends.
WhiteSpace == {" ", "\t", "\n", "\r"}

RECURSIVE trimStart(_)
trimStart(s) ==
  IF s # <<>> /\ Head(s) \in WhiteSpace THEN trimStart(Tail(s)) ELSE s

RECURSIVE trimEnd(_)
trimEnd(s) ==
  IF s # <<>> /\ s[Len(s)] \in WhiteSpace THEN trimEnd(SubSeq(s, 1, Len(s) - 1)) ELSE s

trim(s) == trimEnd(trimStart(s))

\* Length of the longest run of digits of s that starts at position i (\d+ is
\* greedy, and what follows it in the pattern is never a digit).
RECURSIVE digitRun(_, _)
digitRun(s, i) ==
  IF i <= Len(s) /\ IsDigit(s[i]) THEN 1 + digitRun(s, i + 1) ELSE 0

\* Unary plus on a string of decimal digits.
RECURSIVE toNumber(_)
toNumber(ds) ==
  IF ds = <<>> THEN 0 ELSE 10 * toNumber(SubSeq(ds, 1, Len(ds) - 1)) + DigitValue(ds[Len(ds)])

\* Template-literal conversion of a non-negative integer to decimal text.
RECURSIVE numberToString(_)
numberToString(n) ==
  IF n < 10 THEN <<DigitChars[n + 1]>>
  ELSE numberToString(n \div 10) \o <<DigitChars[(n % 10) + 1]>>

\* The Error thrown by parseVersion.
InvalidVersion == [error |-> "Invalid --current-version"]

\* String(v || "").trim().match(/^(\d+)\.(\d+)\.(\d+)$/), then unary plus on
\* the three groups.
parseVersion(v) ==
  LET t  == trim(v)
      n1 == digitRun(t, 1)
      d1 == n1 + 1
      n2 == digitRun(t, d1 + 1)
      d2 == d1 + n2 + 1
      n3 == digitRun(t, d2 + 1)
  IN IF /\ n1 >= 1
        /\ d1 <= Len(t) /\ t[d1] = "."
        /\ n2 >= 1
        /\ d2 <= Len(t) /\ t[d2] = "."
        /\ n3 >= 1
        /\ d2 + n3 = Len(t)
     THEN [major |-> toNumber(SubSeq(t, 1, n1)),
           minor |-> toNumber(SubSeq(t, d1 + 1, d1 + n2)),
           patch |-> toNumber(SubSeq(t, d2 + 1, d2 + n3))]
     ELSE InvalidVersion

formatVersion(major, minor, patch) ==
  numberToString(major) \o <<".">> \o numberToString(minor) \o <<".">> \o numberToString(patch)

\* The bump levels; "none" stands for null and any other argument.
BumpLevels == {"major", "minor", "patch", "none"}

incrementVersionKeepsLower(version, bump) ==
  LET cur == parseVersion(version)
  IN IF cur = InvalidVersion THEN InvalidVersion
     ELSE IF bump = "major" THEN formatVersion(cur.major + 1, cur.minor, cur.patch)
     ELSE IF bump = "minor" THEN formatVersion(cur.major, cur.minor + 1, cur.patch)
     ELSE IF bump = "patch" THEN formatVersion(cur.major, cur.minor, cur.patch + 1)
     ELSE formatVersion(cur.major, cur.minor, cur.patch)

\* incrementVersion: the thrown Error of parseVersion passes through.
incrementVersion(version, bump) ==
  LET cur == parseVersion(version)
  IN IF cur = InvalidVersion THEN InvalidVersion
     ELSE IF bump = "major" THEN formatVersion(cur.major + 1, 0, 0)
     ELSE IF bump = "minor" THEN formatVersion(cur.major, cur.minor + 1, 0)
     ELSE IF bump = "patch" THEN formatVersion(cur.major, cur.minor, cur.patch + 1)
     ELSE formatVersion(cur.major, cur.minor, cur.patch)

\* The texts the functions are tried on: two or three dot-separated
\* components of up to MaxDigits characters (possibly none), optionally after
\* a blank and optionally followed by a blank or a letter.
ComponentChars == {"0", "9"}

ComponentTexts == SeqsUpTo(ComponentChars, MaxDigits)

VersionTexts ==
  {lead \o a \o <<".">> \o b \o rest \o tail :
     lead \in {<<>>, <<" ">>},
     a \in ComponentTexts,
     b \in ComponentTexts,
     rest \in {<<>>} \cup {<<".">> \o c : c \in ComponentTexts},
     tail \in {<<>>, <<" ">>, <<"x">>}}

VerInit ==
  /\ verText \in VersionTexts
  /\ verBump = "none"
  /\ verOut = <<>>
  /\ vpc = "input"

\* parseVersion(verText)
ParseVersion ==
  /\ vpc = "input"
  /\ verOut' = parseVersion(verText)
  /\ vpc' = "parsed"
  /\ UNCHANGED <<verText, verBump>>

\* incrementVersion(verText, bump)
IncrementVersion ==
  /\ vpc = "input"
  /\ \E bump \in BumpLevels :
       /\ verBump' = bump
       /\ verOut' = incrementVersion(verText, bump)
  /\ vpc' = "incremented"
  /\ UNCHANGED verText


(***************************************************************************)
(* Claims about the Version Calculator (SpecVersion)                       *)
(***************************************************************************)
\* The version order: lexicographic on (major, minor, patch).
VersionGreater(a, b) ==
  \/ a.major > b.major
  \/ a.major = b.major /\ a.minor > b.minor
  \/ a.major = b.major /\ a.minor = b.minor /\ a.patch > b.patch

\* C9: for every valid version X.Y.Z, major gives (X+1).0.0, minor gives
\* X.(Y+1).0, patch gives X.Y.(Z+1), none gives the version itself, and
\* increment(v, major) > increment(v, minor) > increment(v, patch) > v in the
\* version order.
C9_IncrementMonotonic ==
  (vpc = "incremented" /\ parseVersion(verText) # InvalidVersion) =>
    LET v == parseVersion(verText)
        r == parseVersion(verOut)
    IN /\ verOut # InvalidVersion
       /\ r # InvalidVersion
       /\ verBump = "major" =>
            /\ r = [major |-> v.major + 1, minor |-> 0, patch |-> 0]
            /\ VersionGreater(r, parseVersion(incrementVersion(verText, "minor")))
       /\ verBump = "minor" =>
            /\ r = [major |-> v.major, minor |-> v.minor + 1, patch |-> 0]
            /\ VersionGreater(r, parseVersion(incrementVersion(verText, "patch")))
       /\ verBump = "patch" =>
            /\ r = [major |-> v.major, minor |-> v.minor, patch |-> v.patch + 1]
            /\ VersionGreater(r, v)
       /\ verBump = "none" => r = v

\* A minor increment that carries into a new digit and resets a non-zero patch.
C9_Witness ==
  /\ vpc = "incremented"
  /\ verBump = "minor"
  /\ verText = <<"9", ".", "9", ".", "9">>
  /\ verOut = <<"9", ".", "1", "0", ".", "0">>

(***************************************************************************)
(* Commit Classifier.  A message is a sequence of fragments, each standing *)
(* for the literal text it names: the keywords (in any letter case, which  *)
(* the i flag ignores; "BREAKING CHANGE" also for its - and _ spellings),  *)
(* "x" for any other word character, ":" for any other punctuation.        *)
(***************************************************************************)
Fragments == {"BREAKING CHANGE", "feat", "fix", "perf", "x", ":", "*", " ", "\n", "\r"}

\* Fragments that begin and end with a word character ([A-Za-z0-9_]).
WordFragments == {"BREAKING CHANGE", "feat", "fix", "perf", "x"}

\* Fragments \s matches.
SpaceFragments == {" ", "\n", "\r"}

Messages == SeqsUpTo(Fragments, MaxFragments)

\* (msg || "").replace(/\r\n/g, "\n")
RECURSIVE normalizeMessage(_)
normalizeMessage(msg) ==
  IF msg = <<>> THEN <<>>
  ELSE IF Len(msg) >= 2 /\ msg[1] = "\r" /\ msg[2] = "\n"
       THEN <<"\n">> \o normalizeMessage(SubSeq(msg, 3, Len(msg)))
       ELSE <<Head(msg)>> \o normalizeMessage(Tail(msg))

\* /\bBREAKING[- _]CHANGE(?:\([^)]+\))?\s*:?/i.test(body): the keyword at a
\* word boundary; everything after the keyword is optional.
testMajor(body) ==
  \E i \in 1..Len(body) :
    /\ body[i] = "BREAKING CHANGE"
    /\ (i = 1 \/ body[i - 1] \notin WordFragments)

\* Positions right after a match of (^|\n): the start of the text (no m flag)
\* and the position after each line feed.
anchors(body) == {1} \cup {j + 1 : j \in {k \in 1..Len(body) : body[k] = "\n"}}

\* /(^|\n)\s*(\*?\s*)?KEYWORD(?:\([^)]+\))?\s*:?/i.test(body): from an
\* anchor, white space, at most one bullet, white space, then the keyword;
\* everything after the keyword is optional.
testPrefix(body, keywords) ==
  \E a \in anchors(body) : \E i \in a..Len(body) :
    /\ body[i] \in keywords
    /\ \A k \in a..(i - 1) : body[k] \in SpaceFragments \cup {"*"}
    /\ Cardinality({k \in a..(i - 1) : body[k] = "*"}) <= 1

classifySingleCommitFeatFirst(messageBody) ==
  LET body == normalizeMessage(messageBody)
  IN IF testPrefix(body, {"feat"}) THEN "minor"
     ELSE IF testMajor(body) THEN "major"
     ELSE IF testPrefix(body, {"fix", "perf"}) THEN "patch"
     ELSE "none"

\* classifySingleCommit; "none" stands for the null it returns.
classifySingleCommit(messageBody) ==
  LET body == normalizeMessage(messageBody)
  IN IF testMajor(body) THEN "major"
     ELSE IF testPrefix(body, {"feat"}) THEN "minor"
     ELSE IF testPrefix(body, {"fix", "perf"}) THEN "patch"
     ELSE "none"

ClsInit ==
  /\ clsMsg \in Messages
  /\ clsLevel = "none"
  /\ cpc = "input"

ClassifyCommit ==
  /\ cpc = "input"
  /\ clsLevel' = classifySingleCommit(clsMsg)
  /\ cpc' = "classified"
  /\ UNCHANGED clsMsg


(***************************************************************************)
(* Claims about the Commit Classifier (SpecClassify)                       *)
(***************************************************************************)
\* The lines of a message: the pieces between line feeds, CRLF read as LF.
RECURSIVE LinesOf(_, _)
LinesOf(msg, cur) ==
  IF msg = <<>> THEN <<cur>>
  ELSE IF Head(msg) = "\n" THEN <<cur>> \o LinesOf(Tail(msg), <<>>)
  ELSE IF Len(msg) >= 2 /\ msg[1] = "\r" /\ msg[2] = "\n"
       THEN <<cur>> \o LinesOf(SubSeq(msg, 3, Len(msg)), <<>>)
       ELSE LinesOf(Tail(msg), Append(cur, Head(msg)))

RECURSIVE DropBlanks(_)
DropBlanks(line) ==
  IF line # <<>> /\ Head(line) \in {" ", "\r"} THEN DropBlanks(Tail(line)) ELSE line

DropBullet(line) == IF line # <<>> /\ Head(line) = "*" THEN Tail(line) ELSE line

\* The line starts, after indentation and an optional bullet, with a keyword.
LineHasPrefix(line, keywords) ==
  LET rest == DropBlanks(DropBullet(DropBlanks(line)))
  IN rest # <<>> /\ Head(rest) \in keywords

HasPrefixAtLineStart(msg, keywords) ==
  LET ls == LinesOf(msg, <<>>)
  IN \E n \in 1..Len(ls) : LineHasPrefix(ls[n], keywords)

\* A breaking-change marker that starts a word, anywhere in the message.
HasBreakingMarker(msg) ==
  \E i \in 1..Len(msg) :
    msg[i] = "BREAKING CHANGE" /\ (i = 1 \/ msg[i - 1] \in {":", "*", " ", "\n", "\r"})

\* C10: the rules are tried in priority order, first match wins: a breaking
\* marker gives major whatever feat/fix/perf prefixes the message has;
\* otherwise a feat prefix at a line start gives minor whatever fix/perf
\* prefixes it has; otherwise fix or perf gives patch; otherwise none.
C10_ClassifyPriority ==
  cpc = "classified" =>
    clsLevel = IF HasBreakingMarker(clsMsg) THEN "major"
               ELSE IF HasPrefixAtLineStart(clsMsg, {"feat"}) THEN "minor"
               ELSE IF HasPrefixAtLineStart(clsMsg, {"fix", "perf"}) THEN "patch"
               ELSE "none"

\* A message with a feat prefix on its first line and a breaking marker on
\* its second is major.
C10_Witness ==
  /\ cpc = "classified"
  /\ clsMsg = <<"feat", ":", "\n", "BREAKING CHANGE">>
  /\ clsLevel = "major"

(***************************************************************************)
(* Commit classification over several commits                              *)
(***************************************************************************)
\* A collapse that would return the first level of the list.
collapseBumpsFirst(levels) == IF levels = <<>> THEN "none" ELSE levels[1]

\* collapseBumps: the highest level present, "none" (null) when none is.
collapseBumps(levels) ==
  IF \E k \in 1..Len(levels) : levels[k] = "major" THEN "major"
  ELSE IF \E k \in 1..Len(levels) : levels[k] = "minor" THEN "minor"
  ELSE IF \E k \in 1..Len(levels) : levels[k] = "patch" THEN "patch"
  ELSE "none"

\* The loop of computeSemanticBumpForCommits from position k on: the levels
\* pushed, stopping after the first major.  messageOf[h] is what
\* `show --format=%B -s h` prints.
RECURSIVE bumpLevelsFrom(_, _, _)
bumpLevelsFrom(hashes, messageOf, k) ==
  IF k > Len(hashes) THEN <<>>
  ELSE LET level == classifySingleCommit(messageOf[hashes[k]])
       IN IF level = "major" THEN <<level>>
          ELSE (IF level # "none" THEN <<level>> ELSE <<>>)
                 \o bumpLevelsFrom(hashes, messageOf, k + 1)

computeSemanticBumpForCommits(hashes, messageOf) ==
  IF Len(hashes) = 0 THEN "none"
  ELSE collapseBumps(bumpLevelsFrom(hashes, messageOf, 1))

\* The lists computeSemanticBumpForCommits may build: it pushes the levels
\* that are not null.
LevelLists == SeqsUpTo({"major", "minor", "patch"}, MaxLevels)

ColInit ==
  /\ levelList \in LevelLists
  /\ collapsed = "none"
  /\ bpc = "input"

CollapseBumps ==
  /\ bpc = "input"
  /\ collapsed' = collapseBumps(levelList)
  /\ bpc' = "collapsed"
  /\ UNCHANGED levelList

(***************************************************************************)
(* Claims about collapseBumps (SpecCollapse)                               *)
(***************************************************************************)
\* The priority of a level: major > minor > patch > none.
LevelRank(level) ==
  CASE level = "major" -> 3 [] level = "minor" -> 2 [] level = "patch" -> 1
    [] OTHER -> 0

\* The level of highest priority in a set of levels, none for the empty set.
HighestOf(levelSet) ==
  IF levelSet = {} THEN "none"
  ELSE CHOOSE l \in levelSet : \A m \in levelSet : LevelRank(m) <= LevelRank(l)

\* C11: collapseBumps returns the level of highest priority among the levels
\* present in the list (major > minor > patch), a function of the set of
\* levels only, hence of neither their order nor their multiplicity, and
\* none for the empty list.
C11_CollapseHighest ==
  bpc = "collapsed" =>
    /\ collapsed = HighestOf(Range(levelList))
    /\ levelList = <<>> => collapsed = "none"
    /\ \A other \in LevelLists :
         Range(other) = Range(levelList) => collapseBumps(other) = collapsed

\* The higher level comes second in the list and is listed twice.
C11_Witness ==
  /\ bpc = "collapsed"
  /\ levelList = <<"patch", "minor", "patch", "minor">>
  /\ collapsed = "minor"

(***************************************************************************)
(* The loop of computeSemanticBumpForCommits, one commit at a time         *)
(***************************************************************************)
\* Messages of the commits scanned: a breaking change, a feature, a fix and
\* a chore.
ScanMessages ==
  {<<"BREAKING CHANGE", ":", " ", "x">>,
   <<"feat", ":", " ", "x">>,
   <<"fix", ":", " ", "x">>,
   <<"x", ":", " ", "x">>}

ScanInit ==
  /\ \E n \in 0..MaxScan : scanHashes = SubSeq(HashNames, 1, n)
  /\ scanBodies \in [Range(scanHashes) -> ScanMessages]
  /\ scanAt = 1
  /\ scanLevels = <<>>
  /\ scanFetched = <<>>
  /\ scanBump = "none"
  /\ spc = "start"

\* lines 487-491: null at once for an empty list, else the loop starts.
ScanStart ==
  /\ spc = "start"
  /\ spc' = IF Len(scanHashes) = 0 THEN "returned" ELSE "loop"
  /\ UNCHANGED <<scanHashes, scanBodies, scanAt, scanLevels, scanFetched, scanBump>>

\* A loop body without the `break` of lines 497-499.
ScanCommitWithoutBreak ==
  /\ spc = "loop"
  /\ scanFetched' = Append(scanFetched, scanHashes[scanAt])
  /\ \/ /\ spc' = "threw"
        /\ UNCHANGED <<scanAt, scanLevels>>
     \/ LET level == classifySingleCommit(scanBodies[scanHashes[scanAt]])
        IN /\ scanLevels' = IF level # "none" THEN Append(scanLevels, level)
                            ELSE scanLevels
           /\ scanAt' = scanAt + 1
           /\ spc' = IF scanAt = Len(scanHashes) THEN "collapse" ELSE "loop"
  /\ UNCHANGED <<scanHashes, scanBodies, scanBump>>

\* lines 492-500: one iteration: the message of the hash is fetched (the
\* lookup may throw), classified, its level pushed when there is one, and the
\* loop left when the level is major.
ScanCommit ==
  /\ spc = "loop"
  /\ scanFetched' = Append(scanFetched, scanHashes[scanAt])
  /\ \/ /\ spc' = "threw"
        /\ UNCHANGED <<scanAt, scanLevels>>
     \/ LET level == classifySingleCommit(scanBodies[scanHashes[scanAt]])
        IN /\ scanLevels' = IF level # "none" THEN Append(scanLevels, level)
                            ELSE scanLevels
           /\ IF level = "major"
              THEN spc' = "collapse" /\ UNCHANGED scanAt
              ELSE /\ scanAt' = scanAt + 1
                   /\ spc' = IF scanAt = Len(scanHashes) THEN "collapse" ELSE "loop"
  /\ UNCHANGED <<scanHashes, scanBodies, scanBump>>

\* line 502: return collapseBumps(levels)
ScanReturn ==
  /\ spc = "collapse"
  /\ scanBump' = collapseBumps(scanLevels)
  /\ spc' = "returned"
  /\ UNCHANGED <<scanHashes, scanBodies, scanAt, scanLevels, scanFetched>>

(***************************************************************************)
(* Claims about computeSemanticBumpForCommits (SpecScan)                   *)
(***************************************************************************)
\* The levels of all the commits of the list that classify, in order.
RECURSIVE ClassifiedLevels(_, _)
ClassifiedLevels(hashes, messageOf) ==
  IF hashes = <<>> THEN <<>>
  ELSE LET level == classifySingleCommit(messageOf[Head(hashes)])
       IN (IF level # "none" THEN <<level>> ELSE <<>>)
            \o ClassifiedLevels(Tail(hashes), messageOf)

\* Positions of the list before which some commit classifies major.
AfterFirstMajor(hashes, messageOf) ==
  {k \in 1..Len(hashes) :
     \E j \in 1..(k - 1) : classifySingleCommit(messageOf[hashes[j]]) = "major"}

\* C22: the level returned for an ordered hash list is the collapse of the
\* classifications of all its commits; the commits fetched are, in order,
\* exactly those not after the first commit classified major (at any moment
\* of the scan none after it has been fetched); the result is none for an
\* empty list, for which nothing is fetched, and when no commit classifies;
\* and the loop returns what the function computeSemanticBumpForCommits of
\* the run returns.
C22_BumpShortCircuit ==
  /\ \A k \in 1..Len(scanFetched) :
       /\ scanFetched[k] = scanHashes[k]
       /\ k \notin AfterFirstMajor(scanHashes, scanBodies)
  /\ spc = "returned" =>
       /\ scanBump = collapseBumps(ClassifiedLevels(scanHashes, scanBodies))
       /\ scanBump = HighestOf(Range(ClassifiedLevels(scanHashes, scanBodies)))
       /\ Len(scanFetched) =
            Len(scanHashes) - Cardinality(AfterFirstMajor(scanHashes, scanBodies))
       /\ scanHashes = <<>> => scanBump = "none" /\ scanFetched = <<>>
       /\ (\A h \in Range(scanHashes) : classifySingleCommit(scanBodies[h]) = "none")
            => scanBump = "none"
       /\ scanBump = computeSemanticBumpForCommits(scanHashes, scanBodies)

\* A feature, then a breaking change, then a feature that is never fetched.
C22_Witness ==
  /\ spc = "returned"
  /\ Len(scanHashes) = 3
  /\ classifySingleCommit(scanBodies[scanHashes[1]]) = "minor"
  /\ classifySingleCommit(scanBodies[scanHashes[2]]) = "major"
  /\ classifySingleCommit(scanBodies[scanHashes[3]]) = "minor"
  /\ scanFetched = SubSeq(scanHashes, 1, 2)
  /\ scanBump = "major"

\* undefined / the empty string: the falsy value of an option.
Absent == <<>>

(***************************************************************************)
(* buildChangelogBody.  The body is modelled as its header version and its *)
(* sections, each a title and its lines; a line is a short hash and a      *)
(* subject.  The date of the header is left out.                           *)
(***************************************************************************)
\* Messages `show --format=%B -s` may print: one per level, and one whose
\* first line is indented free text and whose second line is a feat prefix.
ChangelogMessages ==
  {<<"BREAKING CHANGE", ":", " ", "x">>,
   <<"feat", ":", " ", "x">>,
   <<"fix", ":", " ", "x">>,
   <<"x">>,
   <<" ", "x", "\r", "\n", "feat">>}

\* A full hash: nine characters stand for the forty, the first tells the
\* commits apart.
FullHash(k) == <<HashNames[k], "a", "b", "c", "d", "e", "f", "0", "1">>

\* The commits handed to buildChangelogBody, oldest first.
ChangelogCommitLists ==
  {[k \in 1..n |-> [hash |-> FullHash(k), msg |-> m[k]]] :
     n \in 0..MaxEntries, m \in [1..MaxEntries -> ChangelogMessages]}

\* String(sha).slice(0, 7)
shortSha(sha) == SubSeq(sha, 1, IF Len(sha) < 7 THEN Len(sha) ELSE 7)

\* msg.split(/\r?\n/)[0]: the text before the first LF or CRLF
RECURSIVE firstLine(_)
firstLine(msg) ==
  IF msg = <<>> \/ Head(msg) = "\n" THEN <<>>
  ELSE IF Len(msg) >= 2 /\ msg[1] = "\r" /\ msg[2] = "\n" THEN <<>>
  ELSE <<Head(msg)>> \o firstLine(Tail(msg))

\* The line pushed for a commit: `${shaDisplay} ${subject}`
changelogLine(commit) ==
  [sha |-> shortSha(commit.hash), subject |-> trim(firstLine(commit.msg))]

\* The bucket of the switch for a level: the default case takes null.
bucketOf(level) ==
  CASE level = "major" -> "breakings"
    [] level = "minor" -> "features"
    [] level = "patch" -> "fixes"
    [] OTHER -> "others"

\* The lines pushed to a bucket by the loop over the commits from k on.
RECURSIVE bucketFrom(_, _, _)
bucketFrom(commits, bucket, k) ==
  IF k > Len(commits) THEN <<>>
  ELSE (IF bucketOf(classifySingleCommit(commits[k].msg)) = bucket
        THEN <<changelogLine(commits[k])>> ELSE <<>>)
       \o bucketFrom(commits, bucket, k + 1)

\* sections.push(...) for a bucket with lines
sectionOf(title, lines) ==
  IF Len(lines) > 0 THEN <<[title |-> title, lines |-> lines]>> ELSE <<>>

\* A body that would print the heading of a bucket without lines too.
buildChangelogBodyKeepsEmpty(version, commits) ==
  [version |-> version,
   sections |->
     <<[title |-> "Breaking Changes", lines |-> bucketFrom(commits, "breakings", 1)],
       [title |-> "Features", lines |-> bucketFrom(commits, "features", 1)],
       [title |-> "Fixes", lines |-> bucketFrom(commits, "fixes", 1)],
       [title |-> "Others", lines |-> bucketFrom(commits, "others", 1)]>>]

buildChangelogBody(version, commits) ==
  [version |-> version,
   sections |->
     sectionOf("Breaking Changes", bucketFrom(commits, "breakings", 1))
       \o sectionOf("Features", bucketFrom(commits, "features", 1))
       \o sectionOf("Fixes", bucketFrom(commits, "fixes", 1))
       \o sectionOf("Others", bucketFrom(commits, "others", 1))]

ChgInit ==
  /\ chgCommits \in ChangelogCommitLists
  /\ chgBody = <<>>
  /\ lpc = "input"

BuildChangelog ==
  /\ lpc = "input"
  /\ \E version \in {Absent, <<"1", ".", "3", ".", "0">>} :
       chgBody' = buildChangelogBody(version, chgCommits)
  /\ lpc' = "built"
  /\ UNCHANGED chgCommits

(***************************************************************************)
(* Claims about buildChangelogBody (SpecChangelog)                         *)
(***************************************************************************)
\* The section titles in their fixed order.
SectionTitles == <<"Breaking Changes", "Features", "Fixes", "Others">>

\* The title a commit belongs under, by its classification.
TitleFor(msg) ==
  LET level == classifySingleCommit(msg)
  IN CASE level = "major" -> "Breaking Changes"
       [] level = "minor" -> "Features"
       [] level = "patch" -> "Fixes"
       [] OTHER -> "Others"

\* The commits that belong under a title, as positions of the input.
CommitsUnder(title) == {k \in 1..Len(chgCommits) : TitleFor(chgCommits[k].msg) = title}

\* Position of a title in the fixed order.
TitleRank(title) == CHOOSE r \in 1..Len(SectionTitles) : SectionTitles[r] = title

\* C16: every commit has its line under exactly the title of its
\* classification (none under Others), the lines of a section follow input
\* order, the sections come in the order breaking, features, fixes, others,
\* and a title without commits has no section.
C16_ChangelogBuckets ==
  lpc = "built" =>
    LET secs == chgBody.sections
    IN /\ \A n \in 1..Len(secs) :
            /\ secs[n].title \in Range(SectionTitles)
            /\ Len(secs[n].lines) > 0
       /\ \A n, o \in 1..Len(secs) :
            n < o => TitleRank(secs[n].title) < TitleRank(secs[o].title)
       /\ \A t \in Range(SectionTitles) :
            LET under == CommitsUnder(t)
                found == {n \in 1..Len(secs) : secs[n].title = t}
            IN IF under = {} THEN found = {}
               ELSE /\ Cardinality(found) = 1
                    /\ \A n \in found :
                         secs[n].lines =
                           [j \in 1..Cardinality(under) |->
                              changelogLine(chgCommits[KthOf(under, j)])]
       /\ \A k \in 1..Len(chgCommits) :
            Cardinality({<<n, j>> \in (1..Len(secs)) \X (1..(MaxEntries + 1)) :
                           /\ j <= Len(secs[n].lines)
                           /\ secs[n].lines[j] = changelogLine(chgCommits[k])}) = 1

\* One breaking and one unclassified commit: Breaking Changes, then Others,
\* and nothing else.
C16_Witness ==
  /\ lpc = "built"
  /\ Len(chgCommits) = 2
  /\ chgCommits[1].msg = <<"x">>
  /\ chgCommits[2].msg = <<"BREAKING CHANGE", ":", " ", "x">>
  /\ Len(chgBody.sections) = 2
  /\ chgBody.sections[1].title = "Breaking Changes"
  /\ chgBody.sections[2].title = "Others"

(***************************************************************************)
(* The release run: main() with cherryPickSequential,                      *)
(* handleCherryPickConflict and conflictsResolutionWizard.  One step per   *)
(* awaited command or prompt; a command's outcome, a prompt's answer and   *)
(* an option that main() reads once are inputs of the step that uses them. *)
(***************************************************************************)
\* Values of --current-version and of the version file's "version" field.
RunVersions == {<<"1", ".", "2", ".", "0">>, <<"1", ".", "2">>}

\* The first line of the message of a commit with the given subject.
subjectLine(subject) ==
  CASE subject = "feat: x" -> <<"feat", ":", " ", "x">>
    [] subject = "fix: y" -> <<"fix", ":", " ", "x">>
    [] OTHER -> <<"x", ":", " ", "x">>

\* Messages `show --format=%B` may print for a commit of the run: its subject
\* line alone, or followed by a breaking-change footer.
RunMessages(subject) ==
  {subjectLine(subject),
   subjectLine(subject) \o <<"\n", "\n", "BREAKING CHANGE", ":", " ", "x">>}

\* Source logs of the run: up to MaxHashes commits, the newest a feature, the
\* next a chore, and so on.
RunDevCommitLists ==
  {[k \in 1..n |-> [hash |-> HashNames[k],
                    subject |-> IF k % 2 = 1 THEN "feat: x" ELSE "chore: z"]] :
     n \in 0..MaxHashes}

\* Three commits, newest first: a feature, a fix and a chore.
ScenarioCommits ==
  <<[hash |-> "C3", subject |-> "feat: x"],
    [hash |-> "C2", subject |-> "fix: y"],
    [hash |-> "C1", subject |-> "chore: z"]>>

RunMainSubjects == {{}, {"chore: z"}}

\* The two logs of a repository of the run: at most MaxHashes commits of the
\* source branch are missing from the target branch.
RunRepositories ==
  {r \in [dev : RunDevCommitLists \cup {ScenarioCommits}, main : RunMainSubjects] :
     Len(SelectSeq(r.dev, LAMBDA c : c.subject \notin r.main)) <= MaxHashes}

Files == 1..MaxFiles

\* Branch names: a prefix and the text after it.
WorkBranch == [prefix |-> "", rest |-> <<"w">>]

\* `release/${version}`; an undefined version prints as "undefined".
releaseBranchOf(version) ==
  [prefix |-> "release/", rest |-> IF version = Absent THEN <<"undefined">> ELSE version]

\* Branches that may be checked out when the run starts.
InitialHeads == {WorkBranch, releaseBranchOf(<<"1", ".", "2", ".", "0">>)}

IsPrefixOf(a, b) == Len(a) <= Len(b) /\ SubSeq(b, 1, Len(a)) = a

\* String.prototype.startsWith on branch names
startsWith(branch, start) ==
  branch.prefix = start.prefix /\ IsPrefixOf(start.rest, branch.rest)

\* The kind of a command, for the record of what has been issued: the
\* commands that only read have none.
KindOf(c) ==
  CASE c \in {"checkout --ours", "checkout --theirs", "add", "editor", "mergetool"}
         -> "files"
    [] c \in {"rev-parse", "log dev", "log main", "show", "diff", "diff --name-only",
              "branchLocal", "readFile version-file"} -> "read"
    [] OTHER -> c

Issue(cs) ==
  /\ cmds' = cs
  /\ issued' = issued \cup ({KindOf(c) : c \in Range(cs)} \ {"read"})

\* An error reaches the catch of main(): message printed, process.exit(1).
Fail(e) ==
  /\ pc' = "exit"
  /\ exitCode' = 1
  /\ outcome' = e

\* main() returns: the process ends with exit code 0.
Finish(how) ==
  /\ pc' = "exit"
  /\ exitCode' = 0
  /\ outcome' = how

Goto(label) ==
  /\ pc' = label
  /\ UNCHANGED <<exitCode, outcome>>

RunInit ==
  /\ pc = "fetch"
  /\ exitCode = -1
  /\ outcome = "running"
  /\ semver \in BOOLEAN
  /\ createRelease \in BOOLEAN
  /\ currentVersion \in RunVersions \cup {Absent}
  /\ computedNextVersion = Absent
  /\ branches = {}
  /\ bodies = <<>>
  /\ qDev = "idle"
  /\ qMain = "idle"
  /\ head \in InitialHeads
  /\ devCommits = <<>>
  /\ mainSubjects = {}
  /\ missing = <<>>
  /\ bottomToTop = <<>>
  /\ pos = 1
  /\ result = [applied |-> 0, skipped |-> 0]
  /\ st = <<>>
  /\ unmerged = {}
  /\ inProgress = FALSE
  /\ committed = {}
  /\ picked = <<>>
  /\ issued = {}
  /\ cmds = <<>>
  /\ choice = "none"

\* lines 506-515: optional fetch, then rev-parse for currentBranch; the two
\* queries of Promise.all start.
Fetch ==
  /\ pc = "fetch"
  /\ \E noFetch \in BOOLEAN, fetchOk \in BOOLEAN, revParseOk \in BOOLEAN :
       LET done == IF noFetch THEN <<>> ELSE <<"fetch">>
       IN IF ~noFetch /\ ~fetchOk
          THEN Issue(done) /\ Fail("VcsCommandError") /\ UNCHANGED queryVars
          ELSE IF ~revParseOk
          THEN Issue(done \o <<"rev-parse">>) /\ Fail("VcsCommandError")
               /\ UNCHANGED queryVars
          ELSE /\ Issue(done \o <<"rev-parse">>)
               /\ Goto("queries")
               /\ qDev' = "pending"
               /\ qMain' = "pending"
  /\ UNCHANGED <<argVars, dataVars, orchVars, gitVars>>
  /\ choice' = "none"

\* line 518: getDevCommits settles
DevQueryDone ==
  /\ pc = "queries"
  /\ qDev = "pending"
  /\ Issue(<<"log dev">>)
  /\ \/ /\ \E r \in RunRepositories :
             /\ qMain = "done" => r.main = mainSubjects
             /\ devCommits' = r.dev
        /\ qDev' = "done"
        /\ Goto("queries")
     \/ /\ Fail("VcsCommandError")
        /\ UNCHANGED <<devCommits, qDev>>
  /\ UNCHANGED <<argVars, mainSubjects, missing, bottomToTop, qMain, orchVars, gitVars>>
  /\ choice' = "none"

\* line 519: getSubjects settles
MainQueryDone ==
  /\ pc = "queries"
  /\ qMain = "pending"
  /\ Issue(<<"log main">>)
  /\ \/ /\ \E r \in RunRepositories :
             /\ qDev = "done" => r.dev = devCommits
             /\ mainSubjects' = r.main
        /\ qMain' = "done"
        /\ Goto("queries")
     \/ /\ Fail("VcsCommandError")
        /\ UNCHANGED <<mainSubjects, qMain>>
  /\ UNCHANGED <<argVars, devCommits, missing, bottomToTop, qDev, orchVars, gitVars>>
  /\ choice' = "none"

\* A join that would go on as soon as the source log is there, like a
\* Promise.race, with the target query still outstanding.
JoinWithoutWaiting ==
  /\ pc = "queries"
  /\ qDev = "done"
  /\ missing' = filterMissing(devCommits, mainSubjects)
  /\ IF Len(missing') = 0 THEN Finish("NoMissing") ELSE Goto("select")
  /\ cmds' = <<>>
  /\ UNCHANGED <<argVars, devCommits, mainSubjects, bottomToTop, queryVars, orchVars,
                 gitVars, issued>>
  /\ choice' = "none"

\* lines 517-527: both queries fulfilled; filterMissing; nothing missing ends
\* the run.
Join ==
  /\ pc = "queries"
  /\ qDev = "done"
  /\ qMain = "done"
  /\ missing' = filterMissing(devCommits, mainSubjects)
  /\ IF Len(missing') = 0 THEN Finish("NoMissing") ELSE Goto("select")
  /\ cmds' = <<>>
  /\ UNCHANGED <<argVars, devCommits, mainSubjects, bottomToTop, queryVars, orchVars,
                 gitVars, issued>>
  /\ choice' = "none"

\* A selection step that would go on with an empty answer.
SelectAcceptsEmpty ==
  /\ pc = "select"
  /\ \E allYes \in BOOLEAN, answer \in Arrangements(Range(missingHashes)) :
       LET sel == IF allYes THEN missingHashes ELSE answer
       IN /\ bottomToTop' = sortBottomToTop(sel, indexByHash(missing))
          /\ Goto("dryrun")
  /\ cmds' = <<>>
  /\ UNCHANGED <<argVars, devCommits, mainSubjects, missing, queryVars, orchVars,
                 gitVars, issued>>
  /\ choice' = "none"

\* lines 529-542: the selection (all of missing with --all-yes, else the
\* prompt's answer) and its re-ordering.
Select ==
  /\ pc = "select"
  /\ \E allYes \in BOOLEAN, answer \in Arrangements(Range(missingHashes)) :
       LET sel == IF allYes THEN missingHashes ELSE answer
       IN IF ~allYes /\ Len(sel) = 0
          THEN Finish("NoSelection") /\ UNCHANGED bottomToTop
          ELSE /\ bottomToTop' = sortBottomToTop(sel, indexByHash(missing))
               /\ Goto("dryrun")
  /\ cmds' = <<>>
  /\ UNCHANGED <<argVars, devCommits, mainSubjects, missing, queryVars, orchVars,
                 gitVars, issued>>
  /\ choice' = "none"

\* A --dry-run that would print the plan and go on with the run.
DryRunGoesOn ==
  /\ pc = "dryrun"
  /\ \E dryRun \in BOOLEAN, showOk \in BOOLEAN :
       IF dryRun
       THEN /\ Issue(<<"show">>)
            /\ IF showOk THEN Goto("version") ELSE Fail("VcsCommandError")
       ELSE /\ cmds' = <<>>
            /\ UNCHANGED issued
            /\ Goto("version")
  /\ UNCHANGED <<argVars, dataVars, queryVars, orchVars, gitVars>>
  /\ choice' = "none"

\* lines 544-551: --dry-run prints a subject per hash and returns.
DryRun ==
  /\ pc = "dryrun"
  /\ \E dryRun \in BOOLEAN, showOk \in BOOLEAN :
       IF dryRun
       THEN /\ Issue(<<"show">>)
            /\ IF showOk THEN Finish("DryRun") ELSE Fail("VcsCommandError")
       ELSE /\ cmds' = <<>>
            /\ UNCHANGED issued
            /\ Goto("version")
  /\ UNCHANGED <<argVars, dataVars, queryVars, orchVars, gitVars>>
  /\ choice' = "none"

\* lines 553-556 and getPkgVersion: the version file seeds --current-version.
ResolveVersion ==
  /\ pc = "version"
  /\ \E versionFile \in BOOLEAN :
       IF versionFile /\ currentVersion = Absent
       THEN /\ Issue(<<"readFile version-file">>)
            /\ \/ Fail("VersionFileUnreadable") /\ UNCHANGED currentVersion
               \/ Fail("NoVersionField") /\ UNCHANGED currentVersion
               \/ /\ currentVersion' \in RunVersions
                  /\ Goto("semver")
       ELSE /\ cmds' = <<>>
            /\ UNCHANGED <<issued, currentVersion>>
            /\ Goto("semver")
  /\ UNCHANGED <<semver, createRelease, computedNextVersion, branches, bodies, dataVars,
                 queryVars, orchVars, gitVars>>
  /\ choice' = "none"

\* The messages the commits to apply may have: for each hash one of the
\* messages of its subject in the source log.
RunMessagesOf(hashes) ==
  {f \in [Range(hashes) -> UNION {RunMessages(c.subject) : c \in Range(devCommits)}] :
     \A c \in Range(devCommits) : c.hash \in Range(hashes) => f[c.hash] \in RunMessages(c.subject)}

\* lines 558-580: the next version from the bump of the commits to apply.
ComputeVersion ==
  /\ pc = "semver"
  /\ IF ~semver
     THEN /\ computedNextVersion' = currentVersion
          /\ cmds' = <<>>
          /\ UNCHANGED <<issued, bodies>>
          /\ Goto("release")
     ELSE IF currentVersion = Absent
     THEN /\ cmds' = <<>>
          /\ UNCHANGED <<issued, computedNextVersion, bodies>>
          /\ Fail("MissingPrerequisite")
     ELSE /\ Issue(<<"show">>)
          /\ \/ Fail("VcsCommandError") /\ UNCHANGED <<computedNextVersion, bodies>>
             \/ \E messageOf \in RunMessagesOf(bottomToTop) :
                  LET bump == computeSemanticBumpForCommits(bottomToTop, messageOf)
                      next == IF bump # "none"
                              THEN incrementVersion(currentVersion, bump)
                              ELSE currentVersion
                  IN /\ bodies' = messageOf
                     /\ IF next = InvalidVersion
                        THEN Fail("InvalidVersionFormat") /\ UNCHANGED computedNextVersion
                        ELSE computedNextVersion' = next /\ Goto("release")
  /\ UNCHANGED <<semver, createRelease, currentVersion, branches, dataVars, queryVars,
                 orchVars, gitVars>>
  /\ choice' = "none"

\* The for loop of cherryPickSequential starts: every hash is waiting.
EnterSequence ==
  /\ pos' = 1
  /\ result' = [applied |-> 0, skipped |-> 0]
  /\ st' = [k \in 1..Len(bottomToTop) |-> "Waiting"]
  /\ picked' = <<>>
  /\ Goto("cp_pick")

\* A check of --create-release that would ask for nothing.
releasePrerequisitesIgnored(sv, cv) == FALSE

\* line 583: !argv["semantic-versioning"] || !argv["current-version"]
releasePrerequisitesMissing(sv, cv) == ~sv \/ cv = Absent

\* What git.branchLocal() may list: the branch checked out, with or without
\* a branch of the release name.
LocalBranchListings == {{head}, {head, releaseBranchOf(computedNextVersion)}}

\* A listing check that would never find the release branch.
branchesNeverInclude(all, branchName) == FALSE

\* line 695: branches.all.includes(branchName)
branchesInclude(all, branchName) == branchName \in all

\* lines 582-593 and 610-613: the checks of --create-release and
\* ensureBranchDoesNotExistLocally; without --create-release the run stays on
\* the current branch and cherryPickSequential starts.
CheckRelease ==
  /\ pc = "release"
  /\ IF ~createRelease
     THEN /\ cmds' = <<>>
          /\ UNCHANGED <<issued, branches>>
          /\ EnterSequence
     ELSE /\ UNCHANGED orchVars
          /\ IF releasePrerequisitesMissing(semver, currentVersion)
             THEN /\ cmds' = <<>>
                  /\ UNCHANGED <<issued, branches>>
                  /\ Fail("MissingPrerequisite")
             ELSE IF computedNextVersion = Absent
             THEN /\ cmds' = <<>>
                  /\ UNCHANGED <<issued, branches>>
                  /\ Fail("NoReleaseVersion")
             ELSE /\ Issue(<<"branchLocal">>)
                  /\ \/ Fail("VcsCommandError") /\ UNCHANGED branches
                     \/ \E all \in LocalBranchListings :
                          /\ branches' = all
                          /\ IF branchesInclude(all, releaseBranchOf(computedNextVersion))
                             THEN Fail("BranchAlreadyExists")
                             ELSE Goto("changelog")
  /\ UNCHANGED <<semver, createRelease, currentVersion, computedNextVersion, bodies,
                 dataVars, queryVars, gitVars>>
  /\ choice' = "none"

\* A release that would go on to the branch without writing the changelog.
WriteChangelogSkipped ==
  /\ pc = "changelog"
  /\ cmds' = <<>>
  /\ Goto("branch")
  /\ UNCHANGED <<argVars, dataVars, queryVars, orchVars, gitVars, issued>>
  /\ choice' = "none"

\* lines 596-603: buildChangelogBody reads every message, then the changelog
\* file is written.
WriteChangelog ==
  /\ pc = "changelog"
  /\ \/ Issue(<<"show">>) /\ Fail("VcsCommandError")
     \/ Issue(<<"show", "writeFile RELEASE_CHANGELOG.md">>) /\ Fail("FileWriteError")
     \/ Issue(<<"show", "writeFile RELEASE_CHANGELOG.md">>) /\ Goto("branch")
  /\ UNCHANGED <<argVars, dataVars, queryVars, orchVars, gitVars>>
  /\ choice' = "none"

\* lines 605-621: git.checkoutBranch(releaseBranch, argv.main), then
\* cherryPickSequential starts.
CheckoutReleaseBranch ==
  /\ pc = "branch"
  /\ Issue(<<"checkoutBranch">>)
  /\ \/ /\ Fail("VcsCommandError")
        /\ UNCHANGED <<orchVars, head>>
     \/ /\ head' = releaseBranchOf(computedNextVersion)
        /\ EnterSequence
  /\ UNCHANGED <<argVars, dataVars, queryVars, unmerged, inProgress, committed>>
  /\ choice' = "none"

(***************************************************************************)
(* cherryPickSequential                                                    *)
(***************************************************************************)
\* The hash of the current iteration of `for (const hash of hashes)`.
currentHash == bottomToTop[pos]

\* A loop whose `continue` after a skip would leave result.skipped alone.
AdvanceForgettingSkipped(counter) ==
  /\ result' = IF counter = "applied" THEN [result EXCEPT !.applied = @ + 1] ELSE result
  /\ st' = [st EXCEPT ![pos] = IF counter = "applied" THEN "Applied" ELSE "Skipped"]
  /\ pos' = pos + 1
  /\ Goto(IF pos = Len(bottomToTop) THEN "cp_done" ELSE "cp_pick")

\* result.applied += 1 / result.skipped += 1, then the next iteration, or
\* the end of the loop.
Advance(counter) ==
  /\ result' = [result EXCEPT ![counter] = @ + 1]
  /\ st' = [st EXCEPT ![pos] = IF counter = "applied" THEN "Applied" ELSE "Skipped"]
  /\ pos' = pos + 1
  /\ Goto(IF pos = Len(bottomToTop) THEN "cp_done" ELSE "cp_pick")

\* An error leaves handleCherryPickConflict: the catch of lines 406-409
\* prints "Cherry-pick aborted" and rethrows to main().
AbortSequence(e) ==
  /\ st' = [st EXCEPT ![pos] = "Aborted"]
  /\ Fail(e)
  /\ UNCHANGED <<pos, result>>

\* A catch that would start handleCherryPickConflict(hash) without awaiting
\* it: the loop goes on to the next hash while the conflict is pending.
EnterConflictWithoutAwait ==
  /\ st' = [st EXCEPT ![pos] = "ConflictPending"]
  /\ pos' = pos + 1
  /\ Goto(IF pos = Len(bottomToTop) THEN "cp_done" ELSE "cp_pick")
  /\ UNCHANGED result

\* The catch of line 394: handleCherryPickConflict(hash) is entered.
EnterConflict ==
  /\ st' = [st EXCEPT ![pos] = "ConflictPending"]
  /\ Goto("hc_list")
  /\ UNCHANGED <<pos, result>>

\* line 390: gitRaw(["cherry-pick", hash]).  A failed cherry-pick may leave
\* unmerged files and a stopped cherry-pick behind.
CherryPick ==
  /\ pc = "cp_pick"
  /\ picked' = Append(picked, currentHash)
  /\ Issue(<<"cherry-pick">>)
  /\ \/ /\ committed' = committed \cup {currentHash}
        /\ st' = [st EXCEPT ![pos] = "Applying"]
        /\ Goto("cp_show")
        /\ UNCHANGED <<pos, result, unmerged, inProgress>>
     \/ /\ \E files \in SUBSET Files, stopped \in BOOLEAN :
             /\ files # {} => stopped
             /\ unmerged' = files
             /\ inProgress' = stopped
        /\ EnterConflict
        /\ UNCHANGED committed
  /\ UNCHANGED <<argVars, dataVars, queryVars, head>>
  /\ choice' = "none"

\* lines 391-393: the subject lookup after a successful cherry-pick, inside
\* the same try block.
CherryPickShow ==
  /\ pc = "cp_show"
  /\ Issue(<<"show">>)
  /\ \/ Advance("applied")
     \/ EnterConflict
  /\ UNCHANGED <<argVars, dataVars, queryVars, gitVars, picked>>
  /\ choice' = "none"

(***************************************************************************)
(* handleCherryPickConflict                                                *)
(***************************************************************************)
\* line 176: showConflictsList() at the top of the menu loop
ListConflicts ==
  /\ pc = "hc_list"
  /\ Issue(<<"diff --name-only">>)
  /\ \/ Goto("hc_menu") /\ UNCHANGED <<pos, result, st>>
     \/ AbortSequence("VcsCommandError")
  /\ UNCHANGED <<argVars, dataVars, queryVars, gitVars, picked>>
  /\ choice' = "none"

\* A "skip" that would count the hash as applied.
ChooseSkipCountsApplied ==
  /\ pc = "hc_menu"
  /\ Issue(<<"cherry-pick --skip">>)
  /\ \/ /\ inProgress
        /\ inProgress' = FALSE
        /\ unmerged' = {}
        /\ Advance("applied")
     \/ /\ AbortSequence("VcsCommandError")
        /\ UNCHANGED <<inProgress, unmerged>>
  /\ UNCHANGED <<argVars, dataVars, queryVars, head, committed, picked>>
  /\ choice' = "skip"

\* lines 191-195: the operator chooses "skip".  git accepts --skip only
\* while a cherry-pick is stopped.
ChooseSkip ==
  /\ pc = "hc_menu"
  /\ Issue(<<"cherry-pick --skip">>)
  /\ \/ /\ inProgress
        /\ inProgress' = FALSE
        /\ unmerged' = {}
        /\ Advance("skipped")
     \/ /\ AbortSequence("VcsCommandError")
        /\ UNCHANGED <<inProgress, unmerged>>
  /\ UNCHANGED <<argVars, dataVars, queryVars, head, committed, picked>>
  /\ choice' = "skip"

\* An "abort" that would issue --abort and go on to the wizard without
\* throwing.
ChooseAbortFallsThrough ==
  /\ pc = "hc_menu"
  /\ Issue(<<"cherry-pick --abort">>)
  /\ Goto("wz_list")
  /\ UNCHANGED <<argVars, dataVars, queryVars, orchVars, gitVars>>
  /\ choice' = "abort"

\* lines 197-200: the operator chooses "abort": --abort, then
\* throw new Error("Cherry-pick aborted by user.").
ChooseAbort ==
  /\ pc = "hc_menu"
  /\ Issue(<<"cherry-pick --abort">>)
  /\ \/ /\ inProgress
        /\ inProgress' = FALSE
        /\ unmerged' = {}
        /\ AbortSequence("SequenceAborted")
     \/ /\ AbortSequence("VcsCommandError")
        /\ UNCHANGED <<inProgress, unmerged>>
  /\ UNCHANGED <<argVars, dataVars, queryVars, head, committed, picked>>
  /\ choice' = "abort"

\* line 202: the operator chooses "resolve"
ChooseResolve ==
  /\ pc = "hc_menu"
  /\ cmds' = <<>>
  /\ Goto("wz_list")
  /\ UNCHANGED <<argVars, dataVars, queryVars, orchVars, gitVars, issued>>
  /\ choice' = "resolve"

(***************************************************************************)
(* conflictsResolutionWizard and resolveSingleFileWizard                   *)
(***************************************************************************)
\* line 302: showConflictsList() at the top of the wizard loop
WizardList ==
  /\ pc = "wz_list"
  /\ Issue(<<"diff --name-only">>)
  /\ \/ /\ Goto(IF unmerged = {} THEN "wz_continue" ELSE "wz_menu")
        /\ UNCHANGED <<pos, result, st>>
     \/ AbortSequence("VcsCommandError")
  /\ UNCHANGED <<argVars, dataVars, queryVars, gitVars, picked>>
  /\ choice' = "none"

\* `cherry-pick --continue` and the subject lookup of one try block (lines
\* 304-313 and 366-373): either failure is caught and the loop goes on at
\* `onFailure`.  git continues only a stopped cherry-pick with nothing
\* unmerged.
TryContinue(before, onFailure) ==
  \/ /\ Issue(before \o <<"cherry-pick --continue">>)
     /\ Goto(onFailure)
     /\ UNCHANGED <<pos, result, st, inProgress, committed>>
  \/ /\ inProgress
     /\ unmerged = {}
     /\ Issue(before \o <<"cherry-pick --continue", "show">>)
     /\ inProgress' = FALSE
     /\ committed' = committed \cup {currentHash}
     /\ \/ Advance("applied")
        \/ Goto(onFailure) /\ UNCHANGED <<pos, result, st>>

\* lines 303-314: no conflicted file is listed, --continue is tried at once;
\* after a failure the menu is shown with no file in it.
WizardAutoContinue ==
  /\ pc = "wz_continue"
  /\ TryContinue(<<>>, "wz_menu")
  /\ UNCHANGED <<argVars, dataVars, queryVars, head, unmerged, picked>>
  /\ choice' = "none"

\* What resolveSingleFileWizard may do for an action: the commands issued and
\* whether the file ends up staged.  Its try/catch swallows every failure.
FileOutcomes(action) ==
  CASE action \in {"ours", "theirs"} ->
         LET c == IF action = "ours" THEN "checkout --ours" ELSE "checkout --theirs"
         IN {[cs |-> <<c>>, staged |-> FALSE],
             [cs |-> <<c, "add">>, staged |-> FALSE],
             [cs |-> <<c, "add">>, staged |-> TRUE]}
    [] action = "edit" ->
         {[cs |-> <<"editor">>, staged |-> FALSE],
          [cs |-> <<"editor", "add">>, staged |-> FALSE],
          [cs |-> <<"editor", "add">>, staged |-> TRUE]}
    [] action = "diff" -> {[cs |-> <<"diff">>, staged |-> FALSE]}
    [] action = "stage" ->
         {[cs |-> <<"add">>, staged |-> FALSE], [cs |-> <<"add">>, staged |-> TRUE]}
    [] OTHER -> {[cs |-> <<>>, staged |-> FALSE]}

\* lines 341-344 with resolveSingleFileWizard: a listed file, then an action
\* for it; the loop goes on whatever happened.
WizardFile ==
  /\ pc = "wz_menu"
  /\ \E file \in unmerged,
        action \in {"ours", "theirs", "edit", "diff", "stage", "back"} :
       \E o \in FileOutcomes(action) :
         /\ Issue(o.cs)
         /\ unmerged' = IF o.staged THEN unmerged \ {file} ELSE unmerged
         /\ choice' = "file"
  /\ Goto("wz_list")
  /\ UNCHANGED <<argVars, dataVars, queryVars, orchVars, head, inProgress, committed>>

\* The first n files of the listing.
FirstFiles(files, n) == {f \in files : Cardinality({g \in files : g < f}) < n}

\* lines 346-362, ours-all / theirs-all / stage-all: the listed files in
\* turn; a failing command is not caught here and ends the run.
WizardAll ==
  /\ pc = "wz_menu"
  /\ \E action \in {"ours-all", "theirs-all", "stage-all"},
        n \in 0..Cardinality(unmerged), addReached \in BOOLEAN :
       LET checkout == IF action = "ours-all" THEN <<"checkout --ours">>
                       ELSE IF action = "theirs-all" THEN <<"checkout --theirs">>
                       ELSE <<>>
           complete == n = Cardinality(unmerged)
       IN /\ unmerged' = unmerged \ FirstFiles(unmerged, n)
          /\ choice' = action
          /\ IF unmerged = {}
             THEN cmds' = <<>> /\ UNCHANGED issued
             ELSE Issue(IF n > 0 \/ complete \/ addReached
                        THEN checkout \o <<"add">> ELSE checkout \o <<>>)
          /\ IF complete
             THEN Goto("wz_list") /\ UNCHANGED <<pos, result, st>>
             ELSE AbortSequence("VcsCommandError")
  /\ UNCHANGED <<argVars, dataVars, queryVars, head, inProgress, committed, picked>>

\* lines 356-359, mergetool-all: `git mergetool` once when a file is listed;
\* a non-zero exit is not caught.
WizardMergetool ==
  /\ pc = "wz_menu"
  /\ IF unmerged = {}
     THEN /\ cmds' = <<>>
          /\ Goto("wz_list")
          /\ UNCHANGED <<issued, unmerged, pos, result, st>>
     ELSE /\ Issue(<<"mergetool">>)
          /\ unmerged' \in SUBSET unmerged
          /\ \/ Goto("wz_list") /\ UNCHANGED <<pos, result, st>>
             \/ AbortSequence("VcsCommandError")
  /\ UNCHANGED <<argVars, dataVars, queryVars, head, inProgress, committed, picked>>
  /\ choice' = "mergetool-all"

\* A "try continue" that would run --continue whatever assertNoUnmerged()
\* answered.
WizardTryContinueUnchecked ==
  /\ pc = "wz_menu"
  /\ \/ /\ Issue(<<"diff --name-only">>)
        /\ AbortSequence("VcsCommandError")
        /\ UNCHANGED <<inProgress, committed>>
     \/ TryContinue(<<"diff --name-only">>, "wz_list")
  /\ UNCHANGED <<argVars, dataVars, queryVars, head, unmerged, picked>>
  /\ choice' = "continue"

\* lines 364-377: "try continue": assertNoUnmerged(), then --continue only
\* when nothing is unmerged.
WizardTryContinue ==
  /\ pc = "wz_menu"
  /\ \/ /\ Issue(<<"diff --name-only">>)
        /\ AbortSequence("VcsCommandError")
        /\ UNCHANGED <<inProgress, committed>>
     \/ /\ unmerged # {}
        /\ Issue(<<"diff --name-only">>)
        /\ Goto("wz_list")
        /\ UNCHANGED <<pos, result, st, inProgress, committed>>
     \/ /\ unmerged = {}
        /\ TryContinue(<<"diff --name-only">>, "wz_list")
  /\ UNCHANGED <<argVars, dataVars, queryVars, head, unmerged, picked>>
  /\ choice' = "continue"

\* A "back" that would give the stopped cherry-pick up with --abort before
\* returning to the menu.
WizardBackAborting ==
  /\ pc = "wz_menu"
  /\ Issue(<<"cherry-pick --abort">>)
  /\ inProgress' = FALSE
  /\ unmerged' = {}
  /\ Goto("hc_list")
  /\ UNCHANGED <<argVars, dataVars, queryVars, orchVars, head, committed>>
  /\ choice' = "back"

\* lines 379-381: "back" returns to the menu of handleCherryPickConflict.
WizardBack ==
  /\ pc = "wz_menu"
  /\ cmds' = <<>>
  /\ Goto("hc_list")
  /\ UNCHANGED <<argVars, dataVars, queryVars, orchVars, gitVars, issued>>
  /\ choice' = "back"

(***************************************************************************)
(* main() after cherryPickSequential                                       *)
(***************************************************************************)
\* A summary that would go on to the push steps with nothing applied.
SummaryIgnoresNothingApplied ==
  /\ pc = "cp_done"
  /\ cmds' = <<>>
  /\ Goto("push")
  /\ UNCHANGED <<argVars, dataVars, queryVars, orchVars, gitVars, issued>>
  /\ choice' = "none"

\* lines 621-634: the summary; with nothing applied a best-effort --abort
\* (its failure ignored), then throw new Error("Nothing cherry-picked").
Summary ==
  /\ pc = "cp_done"
  /\ IF result.applied = 0
     THEN /\ Issue(<<"cherry-pick --abort">>)
          /\ \E accepted \in {FALSE, inProgress} :
               /\ inProgress' = (inProgress /\ ~accepted)
               /\ unmerged' = IF accepted THEN {} ELSE unmerged
          /\ Fail("NothingApplied")
     ELSE /\ cmds' = <<>>
          /\ Goto("push")
          /\ UNCHANGED <<issued, inProgress, unmerged>>
  /\ UNCHANGED <<argVars, dataVars, queryVars, orchVars, head, committed>>
  /\ choice' = "none"

\* A --push-release that would not look at the branch HEAD is on.
PushCheckAnyBranch ==
  /\ pc = "push"
  /\ \E pushRelease \in BOOLEAN, revParseOk \in BOOLEAN :
       IF ~pushRelease
       THEN cmds' = <<>> /\ Goto("final")
       ELSE /\ cmds' = <<"rev-parse">>
            /\ IF ~revParseOk THEN Fail("VcsCommandError") ELSE Goto("bump_file")
  /\ UNCHANGED <<argVars, dataVars, queryVars, orchVars, gitVars, issued>>
  /\ choice' = "none"

\* lines 636-644: with --push-release, HEAD must be on the release branch.
PushCheck ==
  /\ pc = "push"
  /\ \E pushRelease \in BOOLEAN, revParseOk \in BOOLEAN :
       IF ~pushRelease
       THEN cmds' = <<>> /\ Goto("final")
       ELSE /\ cmds' = <<"rev-parse">>
            /\ IF ~revParseOk THEN Fail("VcsCommandError")
               ELSE IF ~startsWith(head, releaseBranchOf(computedNextVersion))
               THEN Fail("NotOnReleaseBranch")
               ELSE Goto("bump_file")
  /\ UNCHANGED <<argVars, dataVars, queryVars, orchVars, gitVars, issued>>
  /\ choice' = "none"

\* line 647: setPkgVersion reads the version file and writes it back.
BumpVersionFile ==
  /\ pc = "bump_file"
  /\ \/ Issue(<<"readFile version-file">>) /\ Fail("VersionFileUnreadable")
     \/ Issue(<<"readFile version-file", "writeFile version-file">>)
        /\ Fail("FileWriteError")
     \/ Issue(<<"readFile version-file", "writeFile version-file">>)
        /\ Goto("bump_add")
  /\ UNCHANGED <<argVars, dataVars, queryVars, orchVars, gitVars>>
  /\ choice' = "none"

\* line 648
BumpAdd ==
  /\ pc = "bump_add"
  /\ Issue(<<"add">>)
  /\ \/ Fail("VcsCommandError")
     \/ Goto("bump_commit")
  /\ UNCHANGED <<argVars, dataVars, queryVars, orchVars, gitVars>>
  /\ choice' = "none"

\* line 650
BumpCommit ==
  /\ pc = "bump_commit"
  /\ Issue(<<"commit">>)
  /\ \/ Fail("VcsCommandError")
     \/ Goto("push_branch")
  /\ UNCHANGED <<argVars, dataVars, queryVars, orchVars, gitVars>>
  /\ choice' = "none"

\* line 654
PushBranch ==
  /\ pc = "push_branch"
  /\ Issue(<<"push">>)
  /\ \/ Fail("VcsCommandError")
     \/ Goto("open_pr")
  /\ UNCHANGED <<argVars, dataVars, queryVars, orchVars, gitVars>>
  /\ choice' = "none"

\* lines 656-673: runGh(["pr", "create", ...])
OpenPullRequest ==
  /\ pc = "open_pr"
  /\ Issue(<<"gh pr create">>)
  /\ \/ Fail("GhCommandError")
     \/ Goto("final")
  /\ UNCHANGED <<argVars, dataVars, queryVars, orchVars, gitVars>>
  /\ choice' = "none"

\* lines 676-680: the final branch name (rev-parse with --create-release),
\* then "Done".
Final ==
  /\ pc = "final"
  /\ \E revParseOk \in BOOLEAN :
       IF createRelease
       THEN /\ cmds' = <<"rev-parse">>
            /\ IF revParseOk THEN Finish("Done") ELSE Fail("VcsCommandError")
       ELSE cmds' = <<>> /\ Finish("Done")
  /\ UNCHANGED <<argVars, dataVars, queryVars, orchVars, gitVars, issued>>
  /\ choice' = "none"

(***************************************************************************)
(* Properties of the run (specification Spec)                              *)
(***************************************************************************)
\* cherryPickSequential has returned its result: the loop went past the last
\* hash.
SequenceReturned == st # <<>> /\ pos > Len(bottomToTop)

\* The steps of main() that follow the return of cherryPickSequential.
AfterSequence ==
  {"cp_done", "push", "bump_file", "bump_add", "bump_commit", "push_branch",
   "open_pr", "final"}

HashesIn(states) == {k \in 1..Len(st) : st[k] \in states}

\* C4: whenever cherryPickSequential returns its result (the run did not end
\* in the sequence with an abort or another error), applied + skipped equals
\* the number of hashes it was given; all along, applied and skipped count
\* the hashes that ended Applied and Skipped.
C4_CountsAddUp ==
  /\ pc \in AfterSequence => SequenceReturned
  /\ SequenceReturned =>
       /\ result.applied + result.skipped = Len(bottomToTop)
       /\ HashesIn({"Applied", "Skipped"}) = 1..Len(bottomToTop)
  /\ outcome = "SequenceAborted" => ~SequenceReturned
  /\ st # <<>> =>
       /\ result.applied = Cardinality(HashesIn({"Applied"}))
       /\ result.skipped = Cardinality(HashesIn({"Skipped"}))

C4_Witness ==
  /\ pc = "cp_done"
  /\ result = [applied |-> 1, skipped |-> 1]
  /\ Len(bottomToTop) = 2

\* C5: `cherry-pick <hash>` is issued for the hashes in the order given, one
\* at a time: a hash has left Waiting exactly when its cherry-pick has been
\* issued, every hash before it is then Applied or Skipped, and at most one
\* hash is Applying or ConflictPending.
C5_StrictlySequential ==
  st # <<>> =>
    /\ Len(picked) <= Len(bottomToTop)
    /\ picked = SubSeq(bottomToTop, 1, Len(picked))
    /\ \A k \in 1..Len(st) : st[k] # "Waiting" <=> k <= Len(picked)
    /\ \A k \in 1..Len(st) :
         st[k] # "Waiting" => \A j \in 1..(k - 1) : st[j] \in {"Applied", "Skipped"}
    /\ Cardinality(HashesIn({"Applying", "ConflictPending"})) <= 1
    /\ Cardinality(HashesIn({"ConflictPending"})) <= 1

C5_Witness ==
  /\ pc = "hc_menu"
  /\ pos = 2
  /\ st = <<"Skipped", "ConflictPending">>
  /\ Len(picked) = 2

\* C6: when the operator answers "skip" to a conflict, `cherry-pick --skip`
\* is the command issued and applied is left alone; when git accepts the
\* command the hash is counted as skipped and the loop is at the next hash
\* (or at its end), whose cherry-pick is what the loop issues next; when git
\* rejects it the run ends with that error and the counters as they were.
C6_SkipCountsAndProceeds ==
  [][ /\ (pc = "hc_menu" /\ choice' = "skip") =>
           /\ cmds' = <<"cherry-pick --skip">>
           /\ result'.applied = result.applied
           /\ pc' # "exit" =>
                /\ result'.skipped = result.skipped + 1
                /\ st' = [st EXCEPT ![pos] = "Skipped"]
                /\ pos' = pos + 1
                /\ pc' = IF pos < Len(bottomToTop) THEN "cp_pick" ELSE "cp_done"
           /\ pc' = "exit" =>
                /\ outcome' = "VcsCommandError"
                /\ exitCode' = 1
                /\ result' = result
      /\ pc = "cp_pick" =>
           /\ cmds' = <<"cherry-pick">>
           /\ picked' = Append(picked, bottomToTop[pos])
    ]_vars

C6_Witness ==
  /\ choice = "skip"
  /\ pc = "cp_pick"
  /\ pos = 2
  /\ result = [applied |-> 0, skipped |-> 1]
  /\ st = <<"Skipped", "Waiting">>

\* C7: when the operator answers "abort" to a conflict, `cherry-pick --abort`
\* is the command issued, the hash ends Aborted, the counters stay as they
\* were and the run ends at once with exit code 1 (SequenceAborted, or the
\* error of a rejected --abort); nothing is done after that.
C7_AbortUnwinds ==
  [][ /\ (pc = "hc_menu" /\ choice' = "abort") =>
           /\ cmds' = <<"cherry-pick --abort">>
           /\ st' = [st EXCEPT ![pos] = "Aborted"]
           /\ result' = result
           /\ pc' = "exit"
           /\ exitCode' = 1
           /\ outcome' \in {"SequenceAborted", "VcsCommandError"}
      /\ choice # "abort"
    ]_vars

C7_Witness ==
  /\ choice = "abort"
  /\ pc = "exit"
  /\ exitCode = 1
  /\ outcome = "SequenceAborted"
  /\ st = <<"Applied", "Aborted">>
  /\ result = [applied |-> 1, skipped |-> 0]

\* The commands of the version bump, the commit, the push and the pull
\* request.
ReleaseCommands == {"writeFile version-file", "commit", "push", "gh pr create"}

\* C8: when cherryPickSequential returns with applied = 0, `cherry-pick
\* --abort` is issued, the run ends with NothingApplied and exit code 1
\* whether git accepted the --abort or not, and no version bump, commit, push
\* or pull request has been or will be issued.
C8_NothingApplied ==
  [][ /\ (pc = "cp_done" /\ result.applied = 0) =>
           /\ cmds' = <<"cherry-pick --abort">>
           /\ pc' = "exit"
           /\ exitCode' = 1
           /\ outcome' = "NothingApplied"
           /\ issued' \cap ReleaseCommands = {}
      /\ outcome # "NothingApplied"
      /\ outcome' = "NothingApplied" => pc = "cp_done" /\ result.applied = 0
    ]_vars

C8_Witness ==
  /\ outcome = "NothingApplied"
  /\ exitCode = 1
  /\ pc = "exit"
  /\ cmds = <<"cherry-pick --abort">>
  /\ result = [applied |-> 0, skipped |-> 2]

\* The kinds of command that change the repository, the working tree or the
\* remote: everything issued except the fetch.
MutatingKinds(done) == done \ {"fetch"}

\* C12: with --dry-run the step after the ordering prints a subject per
\* planned hash (the list is the oldest-to-newest order) and the run ends
\* there: up to and including that step nothing but the optional fetch has
\* been issued besides queries: no branch created or checked out, no
\* cherry-pick, add, commit or push, no changelog or version file written, no
\* pull request.  The run ends with exit code 0, or 1 when a lookup fails.
C12_DryRunNoMutation ==
  [][ /\ (pc = "dryrun" /\ cmds' = <<"show">>) =>
           /\ pc' = "exit"
           /\ outcome' \in {"DryRun", "VcsCommandError"}
           /\ exitCode' = IF outcome' = "DryRun" THEN 0 ELSE 1
           /\ bottomToTop = sortBottomToTop(bottomToTop, indexByHash(missing))
           /\ MutatingKinds(issued') = {}
           /\ st' = <<>> /\ picked' = <<>>
           /\ UNCHANGED gitVars
      /\ outcome' = "DryRun" => pc = "dryrun" /\ cmds' = <<"show">>
      /\ outcome # "DryRun"
    ]_vars

C12_Witness ==
  /\ outcome = "DryRun"
  /\ exitCode = 0
  /\ Len(bottomToTop) = 2
  /\ issued = {"fetch"}
  /\ head = WorkBranch
  /\ committed = {}

\* C13: semantic versioning without a current version (none given, none
\* read from a version file), and release creation without semantic
\* versioning or without a current version, end the run with
\* MissingPrerequisite and exit code 1 at the check itself, before any
\* mutation: nothing but the optional fetch has been issued besides queries,
\* no branch listed or created, no changelog written, no cherry-pick issued.
\* A version file that cannot supply the version ends the run as early, with
\* the error of the read.
C13_MissingPrerequisite ==
  [][ /\ (pc = "semver" /\ semver /\ currentVersion = Absent) =>
           outcome' = "MissingPrerequisite"
      /\ (pc = "release" /\ createRelease /\ (~semver \/ currentVersion = Absent)) =>
           outcome' = "MissingPrerequisite"
      /\ outcome' = "MissingPrerequisite" =>
           /\ pc \in {"semver", "release"}
           /\ pc' = "exit"
           /\ exitCode' = 1
           /\ cmds' = <<>>
           /\ MutatingKinds(issued') = {}
           /\ branches' = {}
           /\ st' = <<>> /\ picked' = <<>>
           /\ UNCHANGED gitVars
      /\ (pc = "version" /\ pc' = "exit") =>
           /\ outcome' \in {"VersionFileUnreadable", "NoVersionField"}
           /\ exitCode' = 1
           /\ MutatingKinds(issued') = {}
           /\ st' = <<>> /\ picked' = <<>>
           /\ UNCHANGED gitVars
      /\ outcome # "MissingPrerequisite"
    ]_vars

\* --create-release with a current version but without --semantic-versioning.
C13_Witness ==
  /\ outcome = "MissingPrerequisite"
  /\ exitCode = 1
  /\ createRelease
  /\ ~semver
  /\ currentVersion # Absent
  /\ issued = {"fetch"}

\* C14: when the listing of local branches holds release/<next-version>, the
\* run ends there with BranchAlreadyExists and exit code 1: the version it
\* computed is left as it is, no branch is checked out, the changelog is not
\* written and no cherry-pick is issued.
C14_BranchAlreadyExists ==
  [][ /\ (pc = "release" /\ releaseBranchOf(computedNextVersion) \in branches') =>
           /\ outcome' = "BranchAlreadyExists"
           /\ pc' = "exit"
           /\ exitCode' = 1
           /\ cmds' = <<"branchLocal">>
           /\ computedNextVersion' = computedNextVersion
           /\ MutatingKinds(issued') = {}
           /\ st' = <<>> /\ picked' = <<>>
           /\ UNCHANGED gitVars
      /\ outcome' = "BranchAlreadyExists" =>
           pc = "release" /\ releaseBranchOf(computedNextVersion) \in branches'
      /\ outcome # "BranchAlreadyExists"
    ]_vars

\* The bumped version's branch is listed next to the branch checked out.
C14_Witness ==
  /\ outcome = "BranchAlreadyExists"
  /\ exitCode = 1
  /\ head = WorkBranch
  /\ computedNextVersion = <<"1", ".", "3", ".", "0">>
  /\ branches = {WorkBranch, releaseBranchOf(<<"1", ".", "3", ".", "0">>)}

\* The steps of cherryPickSequential and of the conflict handling under it.
InSequence ==
  {"cp_pick", "cp_show", "hc_list", "hc_menu", "wz_list", "wz_continue", "wz_menu"}

\* The steps of main() that follow the computation of the next version.
PastVersionStep == {"release", "changelog", "branch"} \cup InSequence \cup AfterSequence

\* C15: a run with semantic versioning whose current version is not X.Y.Z
\* never gets past the computation of the next version and never creates a
\* release branch, whatever the selected commits classify to.
C15_MalformedVersionFatal ==
  (semver /\ currentVersion # Absent /\ parseVersion(currentVersion) = InvalidVersion) =>
    /\ pc \notin PastVersionStep
    /\ "checkoutBranch" \notin issued
    /\ pc = "exit" =>
         outcome \in {"InvalidVersionFormat", "VcsCommandError", "NoMissing",
                      "NoSelection", "DryRun"}

\* With the version text 1.2 and no commit that classifies to a bump, the
\* release branch release/1.2 has been created and a commit applied onto it.
C15_MalformedVersionAccepted ==
  /\ semver
  /\ createRelease
  /\ currentVersion = <<"1", ".", "2">>
  /\ parseVersion(currentVersion) = InvalidVersion
  /\ computedNextVersion = <<"1", ".", "2">>
  /\ head = releaseBranchOf(<<"1", ".", "2">>)
  /\ "checkoutBranch" \in issued
  /\ result.applied >= 1

\* C17 as stated: a run that ends on an empty selection ends as a failure
\* and without mutation.
C17_EmptySelectionFails ==
  outcome = "NoSelection" =>
    /\ exitCode # 0
    /\ MutatingKinds(issued) = {}
    /\ st = <<>>

\* C17, amended: the selection step either ends the run, which it does for
\* the empty answer of the prompt only, with the message "No commits
\* selected", exit code 0 and no mutation (no release branch, no changelog,
\* no cherry-pick), or hands on a list that is not empty.
C17_EmptySelectionEndsClean ==
  [][ /\ (pc = "select" /\ pc' = "exit") =>
           /\ outcome' = "NoSelection"
           /\ exitCode' = 0
           /\ bottomToTop' = <<>>
           /\ cmds' = <<>>
           /\ MutatingKinds(issued') = {}
           /\ branches' = {}
           /\ st' = <<>> /\ picked' = <<>>
           /\ UNCHANGED gitVars
      /\ (pc = "select" /\ pc' # "exit") => Len(bottomToTop') > 0
      /\ outcome' = "NoSelection" => pc = "select"
      /\ outcome # "NoSelection"
    ]_vars

\* Two commits were offered and none was chosen.
C17_Witness ==
  /\ outcome = "NoSelection"
  /\ pc = "exit"
  /\ exitCode = 0
  /\ Len(missing) = 2
  /\ bottomToTop = <<>>
  /\ issued = {"fetch"}

\* The part of the order of a release that does not involve the changelog:
\* with --create-release the orchestrator runs only after the release
\* branch was created and checked out; the version-file bump, its commit, the
\* push and the pull request are issued in that order, and only after the
\* orchestrator has returned with applied >= 1.
ReleaseOrderAfterBranch ==
  /\ (createRelease /\ (st # <<>> \/ "cherry-pick" \in issued)) =>
       /\ "checkoutBranch" \in issued
       /\ head = releaseBranchOf(computedNextVersion)
  /\ issued \cap ReleaseCommands # {} =>
       /\ SequenceReturned
       /\ result.applied >= 1
       /\ "writeFile version-file" \in issued
  /\ "push" \in issued => "commit" \in issued
  /\ "gh pr create" \in issued => "push" \in issued
  /\ (pc \in {"bump_commit", "push_branch", "open_pr"} \/ "commit" \in issued) =>
       "writeFile version-file" \in issued

\* C18 as stated: the release branch is created, then the changelog is
\* written, then the orchestrator runs; bump, commit, push and pull request
\* follow in that order after the orchestrator returned with applied >= 1.
C18_BranchThenChangelog ==
  /\ "writeFile RELEASE_CHANGELOG.md" \in issued => "checkoutBranch" \in issued
  /\ (createRelease /\ st # <<>>) => "writeFile RELEASE_CHANGELOG.md" \in issued
  /\ ReleaseOrderAfterBranch

\* C18, amended: the changelog is written first, then the release branch is
\* created from the target branch, then the orchestrator runs; bump, commit,
\* push and pull request follow in that order after the orchestrator
\* returned with applied >= 1.
C18_ChangelogThenBranch ==
  /\ "checkoutBranch" \in issued => "writeFile RELEASE_CHANGELOG.md" \in issued
  /\ pc = "branch" => "writeFile RELEASE_CHANGELOG.md" \in issued
  /\ "writeFile RELEASE_CHANGELOG.md" \in issued => branches # {}
  /\ (createRelease /\ st # <<>>) => "writeFile RELEASE_CHANGELOG.md" \in issued
  /\ ReleaseOrderAfterBranch

\* A release run to its end: changelog, branch, cherry-picks, bump, commit,
\* push, pull request.
C18_Witness ==
  /\ outcome = "Done"
  /\ createRelease
  /\ head = releaseBranchOf(<<"1", ".", "3", ".", "0">>)
  /\ {"writeFile RELEASE_CHANGELOG.md", "checkoutBranch", "cherry-pick",
      "writeFile version-file", "commit", "push", "gh pr create"} \subseteq issued
  /\ result.applied = 2

\* C19: a failure of `cherry-pick --continue` leaves the run in the wizard;
\* every other failing command ends the run with exit code 1: a per-file
\* action whose checkout failed (its add was not reached), a rejected --skip
\* or --abort, and the subject lookup after a cherry-pick, which either
\* succeeds (the loop advances) or ends the run.
C19_OnlyContinueCaught ==
  [][ /\ (pc = "wz_menu" /\ choice' = "file"
            /\ cmds' \in {<<"checkout --ours">>, <<"checkout --theirs">>}) =>
           (pc' = "exit" /\ exitCode' = 1)
      /\ (pc = "hc_menu" /\ choice' = "skip" /\ result'.skipped = result.skipped) =>
           (pc' = "exit" /\ exitCode' = 1)
      /\ (pc = "hc_menu" /\ choice' = "abort") => (pc' = "exit" /\ exitCode' = 1)
      /\ pc = "cp_show" => pc' \in {"cp_pick", "cp_done", "exit"}
      /\ (pc \in {"wz_continue", "wz_menu"}
            /\ "cherry-pick --continue" \in Range(cmds') /\ st'[pos] # "Applied") =>
           pc' \in {"wz_list", "wz_menu"}
    ]_vars

\* `checkout --ours` failed for a file and the wizard is back at its listing,
\* the run still going.
C19_FileFailureSwallowed ==
  /\ pc = "wz_list"
  /\ choice = "file"
  /\ cmds = <<"checkout --ours">>
  /\ exitCode = -1
  /\ st[pos] = "ConflictPending"

\* C20: in the wizard `cherry-pick --continue` is issued only right after a
\* listing of the unmerged files that came back empty: the listing at the
\* top of the loop, or the one "try continue" makes itself.  "Try continue"
\* with unmerged files left issues that listing and nothing else, and the
\* wizard is back at its file listing with the hash still pending and the
\* counters as they were.
C20_ContinueOnlyWhenClean ==
  [][ /\ "cherry-pick --continue" \in Range(cmds') =>
           /\ unmerged = {}
           /\ \/ /\ pc = "wz_continue"
                 /\ cmds = <<"diff --name-only">>
                 /\ cmds'[1] = "cherry-pick --continue"
              \/ /\ pc = "wz_menu"
                 /\ choice' = "continue"
                 /\ cmds'[1] = "diff --name-only"
                 /\ cmds'[2] = "cherry-pick --continue"
      /\ (pc = "wz_menu" /\ choice' = "continue" /\ unmerged # {}) =>
           /\ cmds' = <<"diff --name-only">>
           /\ pc' # "exit" =>
                /\ pc' = "wz_list"
                /\ st[pos] = "ConflictPending"
                /\ UNCHANGED <<st, pos, result, unmerged, inProgress, committed>>
    ]_vars

\* "Try continue" was chosen with a file still unmerged.
C20_Witness ==
  /\ pc = "wz_list"
  /\ choice = "continue"
  /\ cmds = <<"diff --name-only">>
  /\ unmerged # {}
  /\ st[pos] = "ConflictPending"

\* C21: "back" in the file-resolution menu issues no command, leaves the
\* counters, the position and the repository alone and goes back to the
\* conflict listing that precedes the menu of handleCherryPickConflict for
\* the same hash, which is still pending; the listing leads to that menu (or
\* its failure ends the run); in that menu skip, abort and resolve can each be
\* chosen; and a pending hash stops being pending only by a skip after
\* --skip, by being applied after --continue, or by the run ending.
C21_BackKeepsPending ==
  /\ [][ /\ (pc = "wz_menu" /\ choice' = "back") =>
              /\ cmds' = <<>>
              /\ issued' = issued
              /\ pc' = "hc_list"
              /\ st[pos] = "ConflictPending"
              /\ UNCHANGED <<st, pos, result, picked, gitVars>>
         /\ (pc = "hc_list" /\ choice = "back") =>
              /\ cmds' = <<"diff --name-only">>
              /\ UNCHANGED <<pos, result, gitVars>>
              /\ \/ pc' = "hc_menu" /\ st' = st
                 \/ pc' = "exit" /\ exitCode' = 1 /\ outcome' = "VcsCommandError"
         /\ (pos \in DOMAIN st /\ st[pos] = "ConflictPending" /\ st' # st) =>
              \/ /\ st' = [st EXCEPT ![pos] = "Skipped"]
                 /\ choice' = "skip"
                 /\ cmds' = <<"cherry-pick --skip">>
                 /\ result' = [result EXCEPT !.skipped = @ + 1]
              \/ /\ st' = [st EXCEPT ![pos] = "Applied"]
                 /\ "cherry-pick --continue" \in Range(cmds')
                 /\ result' = [result EXCEPT !.applied = @ + 1]
              \/ /\ st' = [st EXCEPT ![pos] = "Aborted"]
                 /\ pc' = "exit"
                 /\ exitCode' = 1
                 /\ result' = result
       ]_vars
  /\ [](pc = "hc_menu" =>
          /\ st[pos] = "ConflictPending"
          /\ ENABLED ChooseSkip
          /\ ENABLED ChooseResolve
          /\ ENABLED ChooseAbort)

\* "back" was chosen for a hash whose cherry-pick is stopped with a file
\* still unmerged.
C21_Witness ==
  /\ pc = "hc_list"
  /\ choice = "back"
  /\ cmds = <<>>
  /\ st[pos] = "ConflictPending"
  /\ inProgress
  /\ unmerged # {}

\* The operations the run is waiting for: the two queries of the Promise.all
\* while they are pending, and the one await main() is suspended at
\* otherwise.
Outstanding ==
  (IF qDev = "pending" THEN 1 ELSE 0) + (IF qMain = "pending" THEN 1 ELSE 0)
    + (IF pc \in {"queries", "exit"} THEN 0 ELSE 1)

\* C23: the two queries complete in either order; until both have completed
\* no command that changes the working tree, the index, a branch or the
\* remote has been issued (only the optional fetch); once the run is past
\* their join both are complete, missing is filterMissing of the two results
\* whatever the order they arrived in, and exactly one operation is
\* outstanding at a time.
C23_QueriesJoinThenSequential ==
  /\ (qDev # "done" \/ qMain # "done") =>
       /\ issued \subseteq {"fetch"}
       /\ missing = <<>>
       /\ pc \in {"fetch", "queries", "exit"}
  /\ pc \notin {"fetch", "queries", "exit"} =>
       /\ qDev = "done"
       /\ qMain = "done"
       /\ missing = filterMissing(devCommits, mainSubjects)
       /\ Outstanding = 1
  /\ pc = "queries" => Outstanding \in 0..2
  /\ (pc = "exit" /\ outcome \notin {"VcsCommandError"}) =>
       /\ qDev = "done"
       /\ qMain = "done"
       /\ missing = filterMissing(devCommits, mainSubjects)

\* The target query completed first and the source query last; both are
\* there and the join is next.
C23_Witness ==
  /\ pc = "queries"
  /\ qDev = "done"
  /\ qMain = "done"
  /\ cmds = <<"log dev">>
  /\ mainSubjects # {}
  /\ Len(devCommits) = 2
  /\ Len(filterMissing(devCommits, mainSubjects)) = 1
  /\ issued \subseteq {"fetch"}

\* The messages of the two commits of the scenario that are applied.
ScenarioBodies ==
  [h \in {"C2", "C3"} |->
     IF h = "C3" THEN <<"feat", ":", " ", "x">> ELSE <<"fix", ":", " ", "x">>]

\* C24: with the source log [C3 "feat: x", C2 "fix: y", C1 "chore: z"] and
\* the target subjects {"chore: z"}, missing is [C3, C2]; a selection of both
\* is applied in the order [C2, C3]; with semantic versioning, these two
\* messages and the current version 1.2.0 the bump is minor and the next
\* version 1.3.0; and the release branch checked out is release/1.3.0.
C24_EndToEndScenario ==
  (devCommits = ScenarioCommits /\ mainSubjects = {"chore: z"}) =>
    /\ (qDev = "done" /\ qMain = "done" /\ pc # "queries") =>
         missing = SubSeq(ScenarioCommits, 1, 2)
    /\ Len(bottomToTop) = 2 => bottomToTop = <<"C2", "C3">>
    /\ (/\ Len(bottomToTop) = 2
        /\ semver
        /\ currentVersion = <<"1", ".", "2", ".", "0">>
        /\ bodies = ScenarioBodies) =>
         /\ computeSemanticBumpForCommits(bottomToTop, bodies) = "minor"
         /\ computedNextVersion = <<"1", ".", "3", ".", "0">>
         /\ outcome # "InvalidVersionFormat"
         /\ ("checkoutBranch" \in issued
               /\ ~(outcome = "VcsCommandError" /\ cmds = <<"checkoutBranch">>)) =>
              /\ head.prefix = "release/"
              /\ head.rest = <<"1", ".", "3", ".", "0">>

\* The scenario with a release: the branch release/1.3.0 is checked out and
\* the first cherry-pick, of C2, is next.
C24_Witness ==
  /\ devCommits = ScenarioCommits
  /\ mainSubjects = {"chore: z"}
  /\ missing = <<ScenarioCommits[1], ScenarioCommits[2]>>
  /\ bottomToTop = <<"C2", "C3">>
  /\ semver
  /\ createRelease
  /\ currentVersion = <<"1", ".", "2", ".", "0">>
  /\ bodies = ScenarioBodies
  /\ computedNextVersion = <<"1", ".", "3", ".", "0">>
  /\ head = releaseBranchOf(<<"1", ".", "3", ".", "0">>)
  /\ pc = "cp_pick"
  /\ pos = 1
  /\ cmds = <<"checkoutBranch">>

\* The steps of the version bump and what they issue.
BumpSteps == {"bump_file", "bump_add", "bump_commit", "push_branch", "open_pr"}

BumpCommands == {"writeFile version-file", "commit", "push", "gh pr create"}

OnReleaseBranch == startsWith(head, releaseBranchOf(computedNextVersion))

\* C25 as stated: the version file is rewritten, the bump committed and the
\* branch pushed only while HEAD is on a branch whose name starts with
\* release/<next-version>; and with --push-release a run that created no
\* release branch fails at the branch check, after the cherry-picks, with
\* nothing committed for the bump and nothing pushed.
C25_NoReleaseBranchFailsCheck ==
  [][ /\ (Range(cmds') \cap BumpCommands # {}) => OnReleaseBranch /\ head' = head
      /\ (pc = "push" /\ cmds' = <<"rev-parse">> /\ "checkoutBranch" \notin issued) =>
           /\ pc' = "exit"
           /\ exitCode' = 1
           /\ result.applied > 0
           /\ issued' \cap BumpCommands = {}
    ]_vars

\* C25, amended: the version file is rewritten, the bump committed and the
\* branch pushed only while HEAD is on a branch whose name starts with
\* release/<next-version>; with --push-release a run whose HEAD is on no
\* such branch fails at the branch check, after at least one commit has been
\* cherry-picked onto the current branch, with nothing committed for the
\* bump and nothing pushed; a run that created no release branch gets past
\* the check only on the branch it was started on.
C25_BumpOnlyOnReleaseBranch ==
  /\ [](pc \in BumpSteps =>
          /\ OnReleaseBranch
          /\ result.applied > 0
          /\ "checkoutBranch" \notin issued => head \in InitialHeads /\ ~createRelease)
  /\ [](outcome = "NotOnReleaseBranch" =>
          /\ ~OnReleaseBranch
          /\ result.applied > 0
          /\ committed # {}
          /\ issued \cap BumpCommands = {})
  /\ [][ /\ (Range(cmds') \cap BumpCommands # {}) =>
              /\ pc \in BumpSteps
              /\ OnReleaseBranch
              /\ head' = head
         /\ (pc = "push" /\ cmds' = <<"rev-parse">> /\ ~OnReleaseBranch) =>
              /\ pc' = "exit"
              /\ exitCode' = 1
              /\ outcome' \in {"NotOnReleaseBranch", "VcsCommandError"}
              /\ issued' = issued
              /\ UNCHANGED <<head, committed, result>>
       ]_vars

\* --push-release without a release branch: the run ended at the branch
\* check with a commit cherry-picked onto the branch it was started on.
C25_Witness ==
  /\ outcome = "NotOnReleaseBranch"
  /\ exitCode = 1
  /\ ~createRelease
  /\ head = WorkBranch
  /\ result.applied = 1
  /\ committed # {}
  /\ "cherry-pick" \in issued
  /\ issued \cap BumpCommands = {}

\* C26: a step changes the counters only by adding one to one of them for
\* the current hash, which the loop then leaves; applied only when
\* `cherry-pick <hash>` or a `cherry-pick --continue` for the hash has
\* succeeded, skipped only by a successful `cherry-pick --skip`; and every
\* hash whose cherry-pick or --continue succeeded is counted as applied (or
\* is about to be, its subject lookup being under way).
C26_CountersFollowCommands ==
  /\ [][ /\ result' # result =>
              /\ pos' = pos + 1
              /\ \/ /\ result' = [result EXCEPT !.applied = @ + 1]
                    /\ st' = [st EXCEPT ![pos] = "Applied"]
                    /\ currentHash \in committed'
                    /\ \/ pc = "cp_show" /\ currentHash \in committed
                       \/ "cherry-pick --continue" \in Range(cmds')
                 \/ /\ result' = [result EXCEPT !.skipped = @ + 1]
                    /\ st' = [st EXCEPT ![pos] = "Skipped"]
                    /\ choice' = "skip"
                    /\ cmds' = <<"cherry-pick --skip">>
         /\ (st # <<>> /\ pos' # pos) => result' # result
       ]_vars
  /\ [](\A k \in DOMAIN st :
          bottomToTop[k] \in committed => st[k] \in {"Applying", "Applied"})

\* `cherry-pick <hash>` succeeded, its subject lookup failed, the conflict
\* menu came up and the run ended on the operator's answer with the commit
\* on the branch and counted nowhere.
C26_CommittedNotCounted ==
  /\ pc = "exit"
  /\ exitCode = 1
  /\ st # <<>>
  /\ pos \in DOMAIN st
  /\ st[pos] = "Aborted"
  /\ bottomToTop[pos] \in committed
  /\ picked[Len(picked)] = bottomToTop[pos]
  /\ result.applied + result.skipped = pos - 1
  /\ choice \in {"skip", "abort"}

\* The steps of handleCherryPickConflict and of the resolution wizard.
ConflictSteps == {"hc_list", "hc_menu", "wz_list", "wz_continue", "wz_menu"}

\* C27: a hash becomes ConflictPending only by a failing `cherry-pick <hash>`;
\* after a successful one the next step counts it as applied with no prompt
\* (or the run ends with the error of a failing command); the conflict steps
\* and the operator's answers occur only for a pending hash; so a sequence
\* that returned without a skip has applied every hash.
C27_ConflictOnlyAfterFailedPick ==
  /\ [][ /\ (/\ pos \in DOMAIN st
             /\ st[pos] # "ConflictPending"
             /\ pos \in DOMAIN st'
             /\ st'[pos] = "ConflictPending") =>
              /\ pc = "cp_pick"
              /\ cmds' = <<"cherry-pick">>
              /\ currentHash \notin committed'
         /\ pc = "cp_show" =>
              \/ /\ st' = [st EXCEPT ![pos] = "Applied"]
                 /\ result' = [result EXCEPT !.applied = @ + 1]
                 /\ choice' = "none"
              \/ pc' = "exit" /\ exitCode' = 1
         /\ choice' # "none" => pc \in {"hc_menu", "wz_menu"}
       ]_vars
  /\ [](pc \in ConflictSteps => pos \in DOMAIN st /\ st[pos] = "ConflictPending")
  /\ [](SequenceReturned /\ result.skipped = 0 => result.applied = Len(bottomToTop))

\* The operator is asked how to proceed for the first hash although its
\* cherry-pick succeeded and no --continue was ever run: only the subject
\* lookup failed.
C27_PromptAfterSuccessfulPick ==
  /\ pc = "hc_menu"
  /\ pos = 1
  /\ st[pos] = "ConflictPending"
  /\ picked = <<currentHash>>
  /\ currentHash \in committed
  /\ "cherry-pick --continue" \notin issued
  /\ ~inProgress
  /\ unmerged = {}
  /\ result = [applied |-> 0, skipped |-> 0]

(***************************************************************************)
(* The specifications.  Each leaves the variables of the others at rest.   *)
(***************************************************************************)
DiffIdle ==
  /\ selected = <<>>
  /\ resorted = <<>>
  /\ dpc = "idle"

VerIdle ==
  /\ verText = <<>>
  /\ verBump = "none"
  /\ verOut = <<>>
  /\ vpc = "idle"

ClsIdle ==
  /\ clsMsg = <<>>
  /\ clsLevel = "none"
  /\ cpc = "idle"

ColIdle ==
  /\ levelList = <<>>
  /\ collapsed = "none"
  /\ bpc = "idle"

ScanIdle ==
  /\ scanHashes = <<>>
  /\ scanBodies = <<>>
  /\ scanAt = 1
  /\ scanLevels = <<>>
  /\ scanFetched = <<>>
  /\ scanBump = "none"
  /\ spc = "idle"

ChgIdle ==
  /\ chgCommits = <<>>
  /\ chgBody = <<>>
  /\ lpc = "idle"

RunIdle ==
  /\ pc = "idle"
  /\ exitCode = -1
  /\ outcome = "idle"
  /\ semver = FALSE
  /\ createRelease = FALSE
  /\ currentVersion = Absent
  /\ computedNextVersion = Absent
  /\ branches = {}
  /\ bodies = <<>>
  /\ qDev = "idle"
  /\ qMain = "idle"
  /\ head = WorkBranch
  /\ pos = 1
  /\ result = [applied |-> 0, skipped |-> 0]
  /\ st = <<>>
  /\ unmerged = {}
  /\ inProgress = FALSE
  /\ committed = {}
  /\ picked = <<>>
  /\ issued = {}
  /\ cmds = <<>>
  /\ choice = "none"

\* The variables of the other specifications stay as they are.
RunOnly == UNCHANGED <<selected, resorted, dpc, verVars, clsVars, colVars, scanVars, chgVars>>

DiffOnly == UNCHANGED <<verVars, clsVars, colVars, scanVars, chgVars, runVars>>

VerOnly == UNCHANGED <<diffVars, clsVars, colVars, scanVars, chgVars, runVars>>

ClsOnly == UNCHANGED <<diffVars, verVars, colVars, scanVars, chgVars, runVars>>

ColOnly == UNCHANGED <<diffVars, verVars, clsVars, scanVars, chgVars, runVars>>

ChgOnly == UNCHANGED <<diffVars, verVars, clsVars, colVars, scanVars, runVars>>

ScanOnly == UNCHANGED <<diffVars, verVars, clsVars, colVars, chgVars, runVars>>

Init == RunInit /\ DiffIdle /\ VerIdle /\ ClsIdle /\ ColIdle /\ ChgIdle /\ ScanIdle

Next ==
  \/ Fetch /\ RunOnly
  \/ DevQueryDone /\ RunOnly
  \/ MainQueryDone /\ RunOnly
  \/ Join /\ RunOnly
  \/ Select /\ RunOnly
  \/ DryRun /\ RunOnly
  \/ ResolveVersion /\ RunOnly
  \/ ComputeVersion /\ RunOnly
  \/ CheckRelease /\ RunOnly
  \/ WriteChangelog /\ RunOnly
  \/ CheckoutReleaseBranch /\ RunOnly
  \/ CherryPick /\ RunOnly
  \/ CherryPickShow /\ RunOnly
  \/ ListConflicts /\ RunOnly
  \/ ChooseSkip /\ RunOnly
  \/ ChooseAbort /\ RunOnly
  \/ ChooseResolve /\ RunOnly
  \/ WizardList /\ RunOnly
  \/ WizardAutoContinue /\ RunOnly
  \/ WizardFile /\ RunOnly
  \/ WizardAll /\ RunOnly
  \/ WizardMergetool /\ RunOnly
  \/ WizardTryContinue /\ RunOnly
  \/ WizardBack /\ RunOnly
  \/ Summary /\ RunOnly
  \/ PushCheck /\ RunOnly
  \/ BumpVersionFile /\ RunOnly
  \/ BumpAdd /\ RunOnly
  \/ BumpCommit /\ RunOnly
  \/ PushBranch /\ RunOnly
  \/ OpenPullRequest /\ RunOnly
  \/ Final /\ RunOnly

Spec == Init /\ [][Next]_vars

InitDiff == DiffInit /\ VerIdle /\ ClsIdle /\ ColIdle /\ ChgIdle /\ RunIdle /\ ScanIdle

NextDiff ==
  \/ FilterMissing /\ DiffOnly
  \/ SelectCommits /\ DiffOnly
  \/ OrderSelection /\ DiffOnly
  \/ OrderAgain /\ DiffOnly

SpecDiff == InitDiff /\ [][NextDiff]_vars

NoRunData ==
  /\ devCommits = <<>>
  /\ mainSubjects = {}
  /\ missing = <<>>
  /\ bottomToTop = <<>>

InitVersion == VerInit /\ ClsIdle /\ ColIdle /\ ChgIdle /\ RunIdle /\ DiffIdle /\ NoRunData /\ ScanIdle

NextVersion ==
  \/ ParseVersion /\ VerOnly
  \/ IncrementVersion /\ VerOnly

SpecVersion == InitVersion /\ [][NextVersion]_vars

InitClassify == ClsInit /\ VerIdle /\ ColIdle /\ ChgIdle /\ RunIdle /\ DiffIdle /\ NoRunData /\ ScanIdle

NextClassify == ClassifyCommit /\ ClsOnly

SpecClassify == InitClassify /\ [][NextClassify]_vars

InitCollapse == ColInit /\ VerIdle /\ ClsIdle /\ ChgIdle /\ RunIdle /\ DiffIdle /\ NoRunData /\ ScanIdle

NextCollapse == CollapseBumps /\ ColOnly

SpecCollapse == InitCollapse /\ [][NextCollapse]_vars

InitChangelog == ChgInit /\ VerIdle /\ ClsIdle /\ ColIdle /\ RunIdle /\ DiffIdle /\ NoRunData /\ ScanIdle

NextChangelog == BuildChangelog /\ ChgOnly

SpecChangelog == InitChangelog /\ [][NextChangelog]_vars

InitScan ==
  ScanInit /\ VerIdle /\ ClsIdle /\ ColIdle /\ ChgIdle /\ RunIdle /\ DiffIdle /\ NoRunData

NextScan ==
  \/ ScanStart /\ ScanOnly
  \/ ScanCommit /\ ScanOnly
  \/ ScanReturn /\ ScanOnly

SpecScan == InitScan /\ [][NextScan]_vars

====
